---- MODULE Spec2Model ----
(***************************************************************************)
(* Governance / compliance subsystem of specify_cli: the waiver store      *)
(* (governance/waiver.py), the rule model and rule engine                  *)
(* (governance/rules/*.py) and the compliance checker                      *)
(* (governance/compliance.py).                                             *)
(*                                                                         *)
(* Text is modelled as a sequence of tokens.  A token is a piece of        *)
(* literal text: one character ("a", " ", "\n", ",", "]", a digit), a      *)
(* fixed literal of the waiver log format ("## Waiver: ",                  *)
(* "- **Reason**: ", ...) or a block of ordinary characters ("x498" is     *)
(* 498 times the character x).  Width gives the number of characters of a  *)
(* token, so len() is the sum of the widths.  The regular expressions of   *)
(* the code are modelled by scanning operators over token sequences.       *)
(* An optional value (None or a value) is the empty sequence or a          *)
(* one-element sequence.                                                   *)
(***************************************************************************)
EXTENDS Integers, Sequences, FiniteSets, TLC

(***************************************************************************)
(* Bounds of the model.                                                    *)
(***************************************************************************)
MaxWaivers == 3
MaxTime == 1
MaxGuides == 2
MaxExisting == 2

(***************************************************************************)
(* Tokens and strings.                                                     *)
(***************************************************************************)
NL == "\n"
SP == " "
HDR == "## Waiver: "
WPFX == "W-"
F_REASON == "- **Reason**: "
F_TS == "- **Timestamp**: "
F_CB == "- **Created By**: "
F_RR == "- **Related Rules**: ["
RB == "]"
COMMA == ","
Digits == <<"0", "1", "2", "3", "4", "5", "6", "7", "8", "9">>
DigitSet == {Digits[i] : i \in 1..10}

Width(t) ==
  CASE t = "x498" -> 498
    [] t = HDR -> 11
    [] t = WPFX -> 2
    [] t = F_REASON -> 14
    [] t = F_TS -> 17
    [] t = F_CB -> 18
    [] t = F_RR -> 22
    [] t = "bob" -> 3
    [] t \in {"r1", "r2", "t0", "t1", "t2", "t3"} -> 2
    [] OTHER -> 1

RECURSIVE len(_)
len(s) == IF s = <<>> THEN 0 ELSE Width(Head(s)) + len(Tail(s))

IsSpace(t) == t \in {SP, NL}

RECURSIVE lstrip(_)
lstrip(s) == IF s # <<>> /\ IsSpace(Head(s)) THEN lstrip(Tail(s)) ELSE s

RECURSIVE rstrip(_)
rstrip(s) ==
  IF s # <<>> /\ IsSpace(s[Len(s)]) THEN rstrip(SubSeq(s, 1, Len(s) - 1)) ELSE s

strip(s) == rstrip(lstrip(s))

None == <<>>
Some(v) == <<v>>

(***************************************************************************)
(* int() of a run of digits and the format specification {n:03d}.          *)
(***************************************************************************)
DigitVal(d) == CHOOSE i \in 0..9 : Digits[i + 1] = d

RECURSIVE int(_)
int(ds) ==
  IF ds = <<>> THEN 0
  ELSE 10 * int(SubSeq(ds, 1, Len(ds) - 1)) + DigitVal(ds[Len(ds)])

RECURSIVE str_int(_)
str_int(n) ==
  IF n < 10 THEN <<Digits[n + 1]>>
  ELSE Append(str_int(n \div 10), Digits[(n % 10) + 1])

RECURSIVE zfill(_, _)
zfill(ds, w) == IF Len(ds) >= w THEN ds ELSE zfill(<<"0">> \o ds, w)

format_03d(n) == zfill(str_int(n), 3)

(***************************************************************************)
(* Waiver (waiver.py:17-60).  related_rules defaults to the empty list.    *)
(***************************************************************************)
Waiver(waiver_id, reason, timestamp, related_rules, created_by) ==
  [waiver_id |-> waiver_id,
   reason |-> reason,
   timestamp |-> timestamp,
   related_rules |-> IF related_rules = None \/ related_rules = Some(<<>>)
                     THEN <<>> ELSE related_rules[1],
   created_by |-> created_by]

(***************************************************************************)
(* WaiverManager.generate_waiver_id (waiver.py:85-107).                    *)
(* re.match(r'W-(\d+)', id) matches at the start of the id only.           *)
(***************************************************************************)
RECURSIVE DigitRunEnd(_, _)
\* index of the last token of the maximal run of digits that starts at p
\* (p - 1 when there is no digit at p)
DigitRunEnd(c, p) ==
  IF p <= Len(c) /\ c[p] \in DigitSet THEN DigitRunEnd(c, p + 1) ELSE p - 1

IdMatches(id) == Len(id) >= 2 /\ id[1] = WPFX /\ id[2] \in DigitSet

IdNum(id) == int(SubSeq(id, 2, DigitRunEnd(id, 2)))

Max(a, b) == IF a >= b THEN a ELSE b

RECURSIVE MaxNum(_)
MaxNum(existing_waivers) ==
  IF existing_waivers = <<>> THEN 0
  ELSE LET w == existing_waivers[Len(existing_waivers)]
           rest == MaxNum(SubSeq(existing_waivers, 1, Len(existing_waivers) - 1))
       IN  IF IdMatches(w.waiver_id) THEN Max(rest, IdNum(w.waiver_id)) ELSE rest

\* a variant that counts the waivers instead of taking the largest suffix
generate_waiver_id_count(existing_waivers) ==
  IF existing_waivers = <<>> THEN <<WPFX, "0", "0", "1">>
  ELSE <<WPFX>> \o format_03d(Len(existing_waivers) + 1)

\* a variant that hands out the first id whatever the log holds
generate_waiver_id_first(existing_waivers) == <<WPFX, "0", "0", "1">>

generate_waiver_id(existing_waivers) ==
  IF existing_waivers = <<>> THEN <<WPFX, "0", "0", "1">>
  ELSE <<WPFX>> \o format_03d(MaxNum(existing_waivers) + 1)

(***************************************************************************)
(* WaiverManager.format_waiver_entry (waiver.py:109-141).                  *)
(***************************************************************************)
RECURSIVE join(_, _)
join(sep, strs) ==
  IF strs = <<>> THEN <<>>
  ELSE IF Len(strs) = 1 THEN strs[1]
  ELSE strs[1] \o sep \o join(sep, Tail(strs))

format_waiver_entry(waiver_id, reason, timestamp, related_rules, created_by) ==
  <<NL, HDR>> \o waiver_id \o <<NL>>
  \o <<F_REASON>> \o reason \o <<NL>>
  \o <<F_TS>> \o timestamp \o <<NL>>
  \o (IF created_by # None /\ created_by[1] # <<>>
      THEN <<F_CB>> \o created_by[1] \o <<NL>> ELSE <<>>)
  \o (IF related_rules # <<>>
      THEN <<F_RR>> \o join(<<COMMA, SP>>, related_rules) \o <<RB, NL>>
      ELSE <<>>)

(***************************************************************************)
(* WaiverManager.parse_waivers_file (waiver.py:228-276).                   *)
(*                                                                         *)
(* Sections are found by re.finditer with the pattern                      *)
(*   ## Waiver: (W-\d+)\n((?:.*?\n)*?)(?=## Waiver:|$)                     *)
(* which is not compiled with re.MULTILINE: after the header line the      *)
(* fewest whole lines are taken such that the next position starts with    *)
(* "## Waiver:" or is the end of the text ($ also matches just before a   *)
(* final newline).                                                         *)
(***************************************************************************)
RECURSIVE NextNL(_, _)
\* index of the first newline at or after p, 0 when there is none
NextNL(c, p) ==
  IF p > Len(c) THEN 0 ELSE IF c[p] = NL THEN p ELSE NextNL(c, p + 1)

Lookahead(c, p) ==
  \/ p <= Len(c) /\ c[p] = HDR
  \/ p = Len(c) + 1
  \/ p = Len(c) /\ c[p] = NL

RECURSIVE SectionEnd(_, _)
\* first position reached by whole lines from p where Lookahead holds, 0 when
\* the text ends in an unterminated line first
SectionEnd(c, p) ==
  IF Lookahead(c, p) THEN p
  ELSE LET q == NextNL(c, p)
       IN  IF q = 0 THEN 0 ELSE SectionEnd(c, q + 1)

\* the match of the section pattern that starts at position p, if any
MatchAt(c, p) ==
  IF /\ p + 3 <= Len(c)
     /\ c[p] = HDR
     /\ c[p + 1] = WPFX
     /\ c[p + 2] \in DigitSet
     /\ DigitRunEnd(c, p + 2) + 1 <= Len(c)
     /\ c[DigitRunEnd(c, p + 2) + 1] = NL
     /\ SectionEnd(c, DigitRunEnd(c, p + 2) + 2) # 0
  THEN LET e == DigitRunEnd(c, p + 2)
           end == SectionEnd(c, e + 2)
       IN  Some([id |-> SubSeq(c, p + 1, e),
                 section |-> SubSeq(c, e + 2, end - 1),
                 next |-> end])
  ELSE None

RECURSIVE finditer(_, _)
finditer(c, p) ==
  IF p > Len(c) THEN <<>>
  ELSE LET m == MatchAt(c, p)
       IN  IF m = None THEN finditer(c, p + 1)
           ELSE <<m[1]>> \o finditer(c, m[1].next)

RECURSIVE FieldSearch(_, _, _)
\* re.search(label + r'(.+?)(?:\n|$)', sec): the rest of the line after the
\* first occurrence of the label that is followed by at least one character
FieldSearch(sec, label, p) ==
  IF p > Len(sec) THEN None
  ELSE IF sec[p] = label /\ p + 1 <= Len(sec) /\ sec[p + 1] # NL
       THEN LET q == NextNL(sec, p + 1)
            IN  Some(SubSeq(sec, p + 1, IF q = 0 THEN Len(sec) ELSE q - 1))
       ELSE FieldSearch(sec, label, p + 1)

RECURSIVE RulesClose(_, _)
\* index of the first "]" at or after j on the same line, 0 when there is none
RulesClose(sec, j) ==
  IF j > Len(sec) \/ sec[j] = NL THEN 0
  ELSE IF sec[j] = RB THEN j ELSE RulesClose(sec, j + 1)

RECURSIVE RulesSearch(_, _)
\* re.search(r'- \*\*Related Rules\*\*: \[(.+?)\]', sec)
RulesSearch(sec, p) ==
  IF p > Len(sec) THEN None
  ELSE IF /\ sec[p] = F_RR
          /\ p + 1 <= Len(sec)
          /\ sec[p + 1] # NL
          /\ RulesClose(sec, p + 2) # 0
       THEN Some(SubSeq(sec, p + 1, RulesClose(sec, p + 2) - 1))
       ELSE RulesSearch(sec, p + 1)

RECURSIVE IndexOf(_, _, _)
IndexOf(s, t, p) ==
  IF p > Len(s) THEN 0 ELSE IF s[p] = t THEN p ELSE IndexOf(s, t, p + 1)

\* "sub in s" for strings: sub occurs in s as a contiguous part
RECURSIVE ContainsAt(_, _, _)
ContainsAt(s, sub, p) ==
  IF p + Len(sub) - 1 > Len(s) THEN FALSE
  ELSE IF SubSeq(s, p, p + Len(sub) - 1) = sub THEN TRUE
  ELSE ContainsAt(s, sub, p + 1)

Contains(s, sub) == ContainsAt(s, sub, 1)

RECURSIVE split(_, _)
split(s, sep) ==
  LET i == IndexOf(s, sep, 1)
  IN  IF i = 0 THEN <<s>>
      ELSE <<SubSeq(s, 1, i - 1)>> \o split(SubSeq(s, i + 1, Len(s)), sep)

StripAll(strs) == [i \in 1..Len(strs) |-> strip(strs[i])]

RECURSIVE ParseSections(_)
ParseSections(ms) ==
  IF ms = <<>> THEN <<>>
  ELSE LET m == Head(ms)
           reason_match == FieldSearch(m.section, F_REASON, 1)
           timestamp_match == FieldSearch(m.section, F_TS, 1)
           created_by_match == FieldSearch(m.section, F_CB, 1)
           rules_match == RulesSearch(m.section, 1)
       IN  (IF reason_match # None /\ timestamp_match # None
            THEN <<Waiver(m.id, reason_match[1], timestamp_match[1],
                          IF rules_match # None
                          THEN Some(StripAll(split(rules_match[1], COMMA)))
                          ELSE None,
                          created_by_match)>>
            ELSE <<>>)
           \o ParseSections(Tail(ms))

parse_waivers_file(exists, content) ==
  IF ~exists THEN <<>> ELSE ParseSections(finditer(content, 1))

\* WaiverManager.list_waivers (waiver.py:297-304)
list_waivers(exists, content) == parse_waivers_file(exists, content)

RECURSIVE FirstWithId(_, _)
FirstWithId(ws, waiver_id) ==
  IF ws = <<>> THEN None
  ELSE IF Head(ws).waiver_id = waiver_id THEN Some(Head(ws))
  ELSE FirstWithId(Tail(ws), waiver_id)

\* WaiverManager.get_waiver_by_id (waiver.py:278-295)
get_waiver_by_id(exists, content, waiver_id) ==
  FirstWithId(parse_waivers_file(exists, content), waiver_id)

(***************************************************************************)
(* WaiverManager.append_to_waivers_file (waiver.py:195-226): the content   *)
(* of the log after the call.  The header is written when the file does    *)
(* not exist, the entry is written in append mode.                         *)
(***************************************************************************)
FileHeader ==
  <<"# Compliance Waivers", NL, NL,
    "Formal exceptions to compliance requirements.", NL,
    "All entries are immutable and timestamped for audit trail purposes.", NL>>

\* a variant that writes the header on every call
append_to_waivers_file_rewrite(exists, content, waiver) ==
  FileHeader
  \o format_waiver_entry(waiver.waiver_id, waiver.reason, waiver.timestamp,
                         waiver.related_rules, waiver.created_by)

append_to_waivers_file(exists, content, waiver) ==
  (IF ~exists THEN FileHeader ELSE content)
  \o format_waiver_entry(waiver.waiver_id, waiver.reason, waiver.timestamp,
                         waiver.related_rules, waiver.created_by)

(***************************************************************************)
(* Python values as they come out of yaml.safe_load: a record with the     *)
(* type name and the value.  A dict is a function from keys to values.     *)
(***************************************************************************)
PyStr(s) == [ty |-> "str", v |-> s]
PyNone == [ty |-> "NoneType", v |-> <<>>]
PyInt(ds) == [ty |-> "int", v |-> ds]
PyBool(b) == [ty |-> "bool", v |-> IF b THEN <<"True">> ELSE <<"False">>]
PyList(l) == [ty |-> "list", v |-> l]
PyDict(d) == [ty |-> "dict", v |-> d]
EmptyDict == <<>>

\* truth value of a Python value ("if not x")
Falsy(x) ==
  \/ x.ty = "NoneType"
  \/ x.ty \in {"str", "list"} /\ Len(x.v) = 0
  \/ x.ty = "dict" /\ DOMAIN x.v = {}
  \/ x.ty = "int" /\ int(x.v) = 0
  \/ x.ty = "bool" /\ x.v = <<"False">>

\* hashable values can be dictionary keys
Hashable(x) == x.ty \notin {"list", "dict"}

\* str(x)
pystr(x) ==
  CASE x.ty \in {"str", "int", "bool"} -> x.v
    [] x.ty = "NoneType" -> <<"None">>
    [] OTHER -> <<"<repr>">>

\* dict.get(key, default)
get(d, key, default) == IF key \in DOMAIN d THEN d[key] ELSE default

Ok(val) == [ok |-> TRUE, val |-> val]
Raise(exc, msg) == [ok |-> FALSE, exc |-> exc, msg |-> msg]

(***************************************************************************)
(* RuleParser (rules/parser.py).                                           *)
(***************************************************************************)
RULE_TYPE_SCHEMAS ==
  [file_exists |-> [required |-> <<"id", "type", "description", "path">>,
                    optional |-> <<"division">>],
   dependency_present |-> [required |-> <<"id", "type", "description", "file", "package">>,
                           optional |-> <<"version", "division">>],
   text_includes |-> [required |-> <<"id", "type", "description", "file", "text">>,
                      optional |-> <<"case_sensitive", "division">>]]

\* a variant that accepts an empty or blank string
ValidateStrField_nonempty(rule, rule_id, name) ==
  LET x == get(rule, name, PyNone)
  IN  IF x.ty # "str"
      THEN Raise("RuleParseError",
                 <<"Rule '">> \o pystr(rule_id) \o <<"': '", name, "' must be a string">>)
      ELSE Ok(TRUE)

\* a required field of the rule's type must be a string that is not blank
ValidateStrField(rule, rule_id, name) ==
  LET x == get(rule, name, PyNone)
  IN  IF x.ty # "str"
      THEN Raise("RuleParseError",
                 <<"Rule '">> \o pystr(rule_id) \o <<"': '", name, "' must be a string">>)
      ELSE IF strip(x.v) = <<>>
      THEN Raise("RuleParseError",
                 <<"Rule '">> \o pystr(rule_id) \o <<"': '", name, "' cannot be empty">>)
      ELSE Ok(TRUE)

\* RuleParser._validate_file_exists_rule (parser.py:206-216)
_validate_file_exists_rule(rule, rule_id) == ValidateStrField(rule, rule_id, "path")

\* RuleParser._validate_dependency_present_rule (parser.py:218-237)
_validate_dependency_present_rule(rule, rule_id) ==
  LET f == ValidateStrField(rule, rule_id, "file")
  IN  IF ~f.ok THEN f ELSE ValidateStrField(rule, rule_id, "package")

\* RuleParser._validate_text_includes_rule (parser.py:239-258)
_validate_text_includes_rule(rule, rule_id) ==
  LET f == ValidateStrField(rule, rule_id, "file")
  IN  IF ~f.ok THEN f ELSE ValidateStrField(rule, rule_id, "text")

RECURSIVE FirstMissing(_, _)
\* the first name of the list that is not a key of the rule, None when all are
FirstMissing(rule, names) ==
  IF names = <<>> THEN None
  ELSE IF Head(names) \notin DOMAIN rule THEN Some(Head(names))
  ELSE FirstMissing(rule, Tail(names))

\* RuleParser.validate_rule_structure (parser.py:137-204); rule is a Python
\* value, rule_type the value of rule.get('type')
validate_rule_structure(rule, rule_type_arg) ==
  IF rule.ty # "dict"
  THEN Raise("RuleParseError", <<"Expected rule to be a dictionary">>)
  ELSE
    LET d == rule.v
        rule_type == IF rule_type_arg.ty = "NoneType" THEN get(d, "type", PyNone)
                     ELSE rule_type_arg
        rule_id == get(d, "id", PyStr(<<"<unknown>">>))
    IN  IF "id" \notin DOMAIN d
        THEN Raise("RuleParseError", <<"Missing required field 'id'">>)
        ELSE IF "type" \notin DOMAIN d
        THEN Raise("RuleParseError",
                   <<"Rule '">> \o pystr(rule_id) \o <<"' missing required field 'type'">>)
        ELSE IF "description" \notin DOMAIN d
        THEN Raise("RuleParseError",
                   <<"Rule '">> \o pystr(rule_id) \o <<"' missing required field 'description'">>)
        ELSE IF ~Hashable(rule_type)
        THEN Raise("TypeError", <<"unhashable type">>)
        ELSE IF ~(rule_type.ty = "str" /\ Len(rule_type.v) = 1
                  /\ rule_type.v[1] \in DOMAIN RULE_TYPE_SCHEMAS)
        THEN Raise("RuleParseError",
                   <<"Rule '">> \o pystr(rule_id) \o <<"' has unknown type">>)
        ELSE
          LET tname == rule_type.v[1]
              missing == FirstMissing(d, RULE_TYPE_SCHEMAS[tname].required)
          IN  IF missing # None
              THEN Raise("RuleParseError",
                         <<"Rule '">> \o pystr(rule_id)
                         \o <<"' missing required field '", missing[1], "'">>)
              ELSE
                LET r == CASE tname = "file_exists" -> _validate_file_exists_rule(d, rule_id)
                           [] tname = "dependency_present" -> _validate_dependency_present_rule(d, rule_id)
                           [] tname = "text_includes" -> _validate_text_includes_rule(d, rule_id)
                IN  IF r.ok THEN Ok(TRUE) ELSE r

(***************************************************************************)
(* A guide file is given by what reading it and yaml.safe_load make of it: *)
(*   text = "unreadable"   read_text raises (a directory, bad encoding)    *)
(*   text = "plain"        no leading ---/--- block                        *)
(*   text = "yaml_error"   the block is not YAML                           *)
(*   text = "yaml"         the block loads to the Python value fm          *)
(* RuleParser.parse_frontmatter (parser.py:87-135).                        *)
(***************************************************************************)
parse_frontmatter(content) ==
  IF content.text = "plain" THEN Ok(PyDict(EmptyDict))
  ELSE IF content.text = "yaml_error"
  THEN Raise("RuleParseError", <<"Malformed YAML in frontmatter">>)
  ELSE IF content.fm.ty = "NoneType" THEN Ok(PyDict(EmptyDict))
  ELSE IF content.fm.ty # "dict"
  THEN Raise("RuleParseError", <<"Invalid frontmatter: expected YAML mapping">>)
  ELSE Ok(content.fm)

RECURSIVE ValidateRules(_, _)
\* the loop of extract_rules over enumerate(rules), from index idx (0-based)
ValidateRules(rules, idx) ==
  IF idx >= Len(rules) THEN Ok(TRUE)
  ELSE LET rule == rules[idx + 1]
       IN  IF rule.ty # "dict"
           THEN Raise("RuleParseError", <<"Invalid rule at index ">> \o str_int(idx))
           ELSE LET r == validate_rule_structure(rule, get(rule.v, "type", PyNone))
                IN  IF r.ok THEN ValidateRules(rules, idx + 1)
                    ELSE IF r.exc = "RuleParseError"
                    THEN Raise("RuleParseError",
                               <<"Error in rule '">>
                               \o pystr(get(rule.v, "id",
                                            PyStr(<<"<rule at index ">> \o str_int(idx) \o <<">">>)))
                               \o <<"': ">> \o r.msg)
                    ELSE r

\* a variant that drops the last rule entry of a guide
extract_rules_droplast(guide) ==
  IF ~guide.exists THEN Raise("FileNotFoundError", <<"Guide file not found">>)
  ELSE IF guide.content.text = "unreadable"
  THEN Raise("OSError", <<"cannot read">>)
  ELSE
    LET p == parse_frontmatter(guide.content)
    IN  IF ~p.ok THEN p
        ELSE IF Falsy(p.val) THEN Ok(<<>>)
        ELSE
          LET rules == get(p.val.v, "rules", PyList(<<>>))
          IN  IF rules.ty # "list"
              THEN Raise("RuleParseError", <<"Invalid 'rules' field: expected list">>)
              ELSE LET r == ValidateRules(rules.v, 0)
                   IN  IF r.ok THEN Ok(SubSeq(rules.v, 1, Len(rules.v) - 1)) ELSE r

\* RuleParser.extract_rules (parser.py:37-85)
extract_rules(guide) ==
  IF ~guide.exists THEN Raise("FileNotFoundError", <<"Guide file not found">>)
  ELSE IF guide.content.text = "unreadable"
  THEN Raise("OSError", <<"cannot read">>)
  ELSE
    LET p == parse_frontmatter(guide.content)
    IN  IF ~p.ok THEN p
        ELSE IF Falsy(p.val) THEN Ok(<<>>)
        ELSE
          LET rules == get(p.val.v, "rules", PyList(<<>>))
          IN  IF rules.ty # "list"
              THEN Raise("RuleParseError", <<"Invalid 'rules' field: expected list">>)
              ELSE LET r == ValidateRules(rules.v, 0)
                   IN  IF r.ok THEN Ok(rules.v) ELSE r

(***************************************************************************)
(* Rule model (rules/__init__.py, rules/file_rules.py).  The project tree  *)
(* is the set of relative paths that exist under project_root.             *)
(***************************************************************************)
M_EXISTS == "File exists at "
M_NOT_FOUND == "File not found at "
M_CHECKED == "Checked path: "

\* FileExistsRule.from_yaml (file_rules.py:54-79)
FileExistsRule_from_yaml(data) ==
  LET rule_id == get(data, "id", PyNone)
      description == get(data, "description", PyNone)
      path == get(data, "path", PyNone)
  IN  IF Falsy(rule_id) THEN Raise("ValueError", <<"Rule missing required field: 'id'">>)
      ELSE IF Falsy(description)
      THEN Raise("ValueError", <<"Rule '">> \o pystr(rule_id) \o <<"' missing required field: 'description'">>)
      ELSE IF Falsy(path)
      THEN Raise("ValueError", <<"Rule '">> \o pystr(rule_id) \o <<"' of type 'file_exists' missing required field: 'path'">>)
      ELSE Ok([TYPE |-> "file_exists", id |-> rule_id, description |-> description,
               path |-> path])

\* FileExistsRule.evaluate (file_rules.py:30-52) for a path that is a string
\* and a tree whose entries can all be examined
FileExistsRule_evaluate(rule, tree) ==
  LET exists == rule.path.ty = "str" /\ rule.path.v \in tree
  IN  [passed |-> exists,
       message |-> IF exists THEN <<M_EXISTS>> \o pystr(rule.path)
                   ELSE <<M_NOT_FOUND>> \o pystr(rule.path),
       details |-> <<M_CHECKED>> \o pystr(rule.path)]

(***************************************************************************)
(* The files the rules look at.  A file system maps a relative path to     *)
(*   missing      nothing is there                                         *)
(*   file         a regular file that can be read, with its text           *)
(*   dir          a directory                                              *)
(*   unreadable   a regular file whose read_text raises (no read           *)
(*                permission, bytes that are not text)                     *)
(*   noaccess     an entry of a directory that may not be searched: stat   *)
(*                fails with EACCES                                        *)
(***************************************************************************)
FsMissing == [kind |-> "missing", content |-> <<>>]
FsFile(c) == [kind |-> "file", content |-> c]
FsDir == [kind |-> "dir", content |-> <<>>]
FsUnreadable == [kind |-> "unreadable", content |-> <<>>]
FsNoAccess == [kind |-> "noaccess", content |-> <<>>]

\* the file system in which exactly the paths of the tree exist
TreeFs(tree) == [p \in tree |-> FsFile(<<>>)]

\* the paths of the file system that exist
ExistingPaths(fs) == {p \in DOMAIN fs : fs[p].kind # "missing"}

\* project_path / x: pathlib joins strings only
JoinPath(x) ==
  IF x.ty = "str" THEN Ok(x.v)
  ELSE Raise("TypeError", <<"unsupported operand type(s) for /: 'PosixPath' and '", x.ty, "'">>)

\* Path.exists(): stat() with ENOENT and ENOTDIR read as False; any other
\* OSError, EACCES among them, is raised
path_exists(fs, p) ==
  IF p \notin DOMAIN fs \/ fs[p].kind = "missing" THEN Ok(FALSE)
  ELSE IF fs[p].kind = "noaccess"
  THEN Raise("PermissionError", <<"[Errno 13] Permission denied: '">> \o p \o <<"'">>)
  ELSE Ok(TRUE)

\* Path.read_text() of a path that exists
read_text(fs, p) ==
  CASE fs[p].kind = "file" -> Ok(fs[p].content)
    [] fs[p].kind = "dir" -> Raise("IsADirectoryError", <<"[Errno 21] Is a directory: '">> \o p \o <<"'">>)
    [] OTHER -> Raise("PermissionError", <<"[Errno 13] Permission denied: '">> \o p \o <<"'">>)

\* str.lower() on the tokens of the model
LowerTok(t) == IF t = "Requests" THEN "requests" ELSE IF t = "MIT" THEN "mit" ELSE t
lower(s) == [i \in DOMAIN s |-> LowerTok(s[i])]

\* the value of "x in content" and of x.lower() for a rule field x that may
\* not be a string
InText(x, content) ==
  IF x.ty = "str" THEN Ok(Contains(content, x.v))
  ELSE Raise("TypeError", <<"'in <string>' requires string as left operand, not ", x.ty>>)

(***************************************************************************)
(* DependencyPresentRule (rules/dependency_rules.py).                      *)
(***************************************************************************)
\* DependencyPresentRule.from_yaml (dependency_rules.py:117-146)
DependencyPresentRule_from_yaml(data) ==
  LET rule_id == get(data, "id", PyNone)
      description == get(data, "description", PyNone)
      file == get(data, "file", PyNone)
      package == get(data, "package", PyNone)
      version == get(data, "version", PyNone)
  IN  IF Falsy(rule_id) THEN Raise("ValueError", <<"Rule missing required field: 'id'">>)
      ELSE IF Falsy(description)
      THEN Raise("ValueError", <<"Rule '">> \o pystr(rule_id) \o <<"' missing required field: 'description'">>)
      ELSE IF Falsy(file)
      THEN Raise("ValueError", <<"Rule '">> \o pystr(rule_id) \o <<"' of type 'dependency_present' missing required field: 'file'">>)
      ELSE IF Falsy(package)
      THEN Raise("ValueError", <<"Rule '">> \o pystr(rule_id) \o <<"' of type 'dependency_present' missing required field: 'package'">>)
      ELSE Ok([TYPE |-> "dependency_present", id |-> rule_id, description |-> description,
               file |-> file, package |-> package, version |-> version])

\* the characters the version constraint loses before it is searched for
\* (dependency_rules.py:95): '>=', '~', '>', '<', '=' are removed, then strip()
VersionOps == {">=", "~", ">", "<", "="}
CleanVersion(v) == strip(SelectSeq(v, LAMBDA t : t \notin VersionOps))

RECURSIVE VersionMentionedAt(_, _, _, _)
\* re.search(escape(package) + '[^\n]*' + escape(version), content, IGNORECASE)
\* from position p: the package, then the version later on the same line
VersionMentionedAt(content, package, version, p) ==
  IF p + Len(package) - 1 > Len(content) THEN FALSE
  ELSE IF SubSeq(content, p, p + Len(package) - 1) = package
  THEN LET q == p + Len(package)
           nl == IndexOf(content, NL, q)
           line == SubSeq(content, q, IF nl = 0 THEN Len(content) ELSE nl - 1)
       IN  Contains(line, version)
           \/ VersionMentionedAt(content, package, version, p + 1)
  ELSE VersionMentionedAt(content, package, version, p + 1)

\* DependencyPresentRule.evaluate once the package was found in the manifest
\* (dependency_rules.py:92-115)
VersionOutcome(rule, content) ==
  IF Falsy(rule.version)
  THEN Ok([passed |-> TRUE,
           message |-> <<"Package '">> \o pystr(rule.package) \o <<"' declared in ">> \o pystr(rule.file),
           details |-> <<"Found in: ">> \o pystr(rule.file)])
  ELSE IF rule.version.ty # "str"
  THEN Raise("AttributeError", <<"'", rule.version.ty, "' object has no attribute 'replace'">>)
  ELSE IF VersionMentionedAt(lower(content), lower(rule.package.v),
                             lower(CleanVersion(rule.version.v)), 1)
  THEN Ok([passed |-> TRUE,
           message |-> <<"Package '">> \o pystr(rule.package)
                       \o <<"' declared with version constraint in ">> \o pystr(rule.file),
           details |-> <<"Version requirement: ">> \o pystr(rule.version)])
  ELSE Ok([passed |-> TRUE,
           message |-> <<"Package '">> \o pystr(rule.package) \o <<"' declared in ">> \o pystr(rule.file),
           details |-> <<"Note: Version constraint '">> \o pystr(rule.version)
                       \o <<"' not explicitly validated">>])

\* content = path.read_text() inside try / except Exception
\* (dependency_rules.py:73-80, text_rules.py:72-79): the text, or the result
\* the except branch returns
ReadTarget(rule, fs, p, what) ==
  LET r == read_text(fs, p)
  IN  IF r.ok THEN [read |-> TRUE, content |-> r.val]
      ELSE [read |-> FALSE,
            out |-> Ok([passed |-> FALSE,
                        message |-> <<"Could not read ", what, ": ">> \o pystr(rule.file),
                        details |-> <<"Error: ">> \o r.msg])]

\* DependencyPresentRule.evaluate (dependency_rules.py:50-115)
DependencyPresentRule_evaluate(rule, fs) ==
  LET manifest_path == JoinPath(rule.file)
  IN  IF ~manifest_path.ok THEN manifest_path
      ELSE
        LET exists == path_exists(fs, manifest_path.val)
        IN  IF ~exists.ok THEN exists
            ELSE IF ~exists.val
            THEN Ok([passed |-> FALSE,
                     message |-> <<"Manifest file not found: ">> \o pystr(rule.file),
                     details |-> <<"Expected manifest at: ">> \o manifest_path.val])
            ELSE
              LET t == ReadTarget(rule, fs, manifest_path.val, "manifest file")
              IN  IF ~t.read THEN t.out
                  ELSE
                    LET package_found == InText(rule.package, t.content)
                    IN  IF ~package_found.ok THEN package_found
                        ELSE IF ~package_found.val
                        THEN Ok([passed |-> FALSE,
                                 message |-> <<"Package '">> \o pystr(rule.package)
                                             \o <<"' not declared in ">> \o pystr(rule.file),
                                 details |-> <<"Searched in: ">> \o manifest_path.val])
                        ELSE VersionOutcome(rule, t.content)

(***************************************************************************)
(* TextIncludesRule (rules/text_rules.py).                                 *)
(***************************************************************************)
\* TextIncludesRule.from_yaml (text_rules.py:100-129)
TextIncludesRule_from_yaml(data) ==
  LET rule_id == get(data, "id", PyNone)
      description == get(data, "description", PyNone)
      file == get(data, "file", PyNone)
      text == get(data, "text", PyNone)
      case_sensitive == get(data, "case_sensitive", PyBool(TRUE))
  IN  IF Falsy(rule_id) THEN Raise("ValueError", <<"Rule missing required field: 'id'">>)
      ELSE IF Falsy(description)
      THEN Raise("ValueError", <<"Rule '">> \o pystr(rule_id) \o <<"' missing required field: 'description'">>)
      ELSE IF Falsy(file)
      THEN Raise("ValueError", <<"Rule '">> \o pystr(rule_id) \o <<"' of type 'text_includes' missing required field: 'file'">>)
      ELSE IF Falsy(text)
      THEN Raise("ValueError", <<"Rule '">> \o pystr(rule_id) \o <<"' of type 'text_includes' missing required field: 'text'">>)
      ELSE Ok([TYPE |-> "text_includes", id |-> rule_id, description |-> description,
               file |-> file, text |-> text, case_sensitive |-> case_sensitive])

\* TextIncludesRule.evaluate (text_rules.py:49-98)
TextIncludesRule_evaluate(rule, fs) ==
  LET file_path == JoinPath(rule.file)
  IN  IF ~file_path.ok THEN file_path
      ELSE
        LET exists == path_exists(fs, file_path.val)
        IN  IF ~exists.ok THEN exists
            ELSE IF ~exists.val
            THEN Ok([passed |-> FALSE,
                     message |-> <<"File not found: ">> \o pystr(rule.file),
                     details |-> <<"Expected file at: ">> \o file_path.val])
            ELSE
              LET t == ReadTarget(rule, fs, file_path.val, "file")
              IN  IF ~t.read THEN t.out
                  ELSE IF rule.text.ty # "str"
                  THEN IF Falsy(rule.case_sensitive)
                       THEN Raise("AttributeError", <<"'", rule.text.ty, "' object has no attribute 'lower'">>)
                       ELSE Raise("TypeError", <<"'in <string>' requires string as left operand, not ", rule.text.ty>>)
                  ELSE
                    LET search_content == IF Falsy(rule.case_sensitive) THEN lower(t.content)
                                          ELSE t.content
                        search_text == IF Falsy(rule.case_sensitive) THEN lower(rule.text.v)
                                       ELSE rule.text.v
                    IN  IF Contains(search_content, search_text)
                        THEN Ok([passed |-> TRUE,
                                 message |-> <<"Pattern found in ">> \o pystr(rule.file),
                                 details |-> <<"Pattern '">> \o pystr(rule.text) \o <<"' found">>])
                        ELSE Ok([passed |-> FALSE,
                                 message |-> <<"Pattern not found in ">> \o pystr(rule.file),
                                 details |-> <<"Searched for: '">> \o pystr(rule.text) \o <<"'">>])

(***************************************************************************)
(* RuleEngine (rules/engine.py).                                           *)
(***************************************************************************)
RULE_TYPES == {"file_exists", "dependency_present", "text_includes"}

\* RuleEngine.create_rule(rule_type, **kwargs) (engine.py:93-116).
\* RULE_TYPES.get(rule_type) raises TypeError when rule_type is not hashable.
create_rule(rule_type, kwargs) ==
  IF ~Hashable(rule_type)
  THEN Raise("TypeError", <<"unhashable type: '", rule_type.ty, "'">>)
  ELSE IF ~(rule_type.ty = "str" /\ Len(rule_type.v) = 1 /\ rule_type.v[1] \in RULE_TYPES)
  THEN Raise("ValueError", <<"Unknown rule type: '">> \o pystr(rule_type) \o <<"'">>)
  ELSE CASE rule_type.v[1] = "file_exists" -> FileExistsRule_from_yaml(kwargs)
         [] rule_type.v[1] = "dependency_present" -> DependencyPresentRule_from_yaml(kwargs)
         [] rule_type.v[1] = "text_includes" -> TextIncludesRule_from_yaml(kwargs)

\* rule.evaluate(project_root), dispatched on the class of the rule: the
\* dictionary returned, or the exception raised.  A rule of class "broken"
\* stands for a subclass whose evaluate raises.
evaluate(rule, fs) ==
  CASE rule.TYPE = "file_exists" ->
         LET file_path == JoinPath(rule.path)
         IN  IF ~file_path.ok THEN file_path
             ELSE LET exists == path_exists(fs, file_path.val)
                  IN  IF ~exists.ok THEN exists
                      ELSE Ok(FileExistsRule_evaluate(rule, ExistingPaths(fs)))
    [] rule.TYPE = "dependency_present" -> DependencyPresentRule_evaluate(rule, fs)
    [] rule.TYPE = "text_includes" -> TextIncludesRule_evaluate(rule, fs)
    [] rule.TYPE = "broken" -> Raise("RuntimeError", <<"boom">>)

(***************************************************************************)
(* ComplianceChecker (compliance.py).                                      *)
(***************************************************************************)
\* a variant that records an empty waiver id where there is no waiver
RuleEvaluationResult_blank(rule_id, rule_type, status, message, target, guide_id, waiver_id, timestamp) ==
  [rule_id |-> rule_id, rule_type |-> rule_type, status |-> status,
   message |-> message, target |-> target, guide_id |-> guide_id,
   division |-> None, waiver_id |-> IF waiver_id = None THEN Some(<<>>) ELSE waiver_id,
   timestamp |-> timestamp]

RuleEvaluationResult(rule_id, rule_type, status, message, target, guide_id, waiver_id, timestamp) ==
  [rule_id |-> rule_id, rule_type |-> rule_type, status |-> status,
   message |-> message, target |-> target, guide_id |-> guide_id,
   division |-> None, waiver_id |-> waiver_id, timestamp |-> timestamp]

Range(q) == {q[i] : i \in DOMAIN q}

RECURSIVE _build_waiver_map_first(_)
\* a variant in which the first waiver listing a rule id keeps it
_build_waiver_map_first(waivers) ==
  IF waivers = <<>> THEN [k \in {} |-> 0]
  ELSE LET w == waivers[Len(waivers)]
           m == _build_waiver_map_first(SubSeq(waivers, 1, Len(waivers) - 1))
       IN  [k \in DOMAIN m \cup Range(w.related_rules) |->
              IF k \in DOMAIN m THEN m[k] ELSE w]

RECURSIVE _build_waiver_map(_)
\* ComplianceChecker._build_waiver_map (compliance.py:290-304): a later waiver
\* replaces an earlier one under the same rule id
_build_waiver_map(waivers) ==
  IF waivers = <<>> THEN [k \in {} |-> 0]
  ELSE LET w == waivers[Len(waivers)]
           m == _build_waiver_map(SubSeq(waivers, 1, Len(waivers) - 1))
       IN  [k \in DOMAIN m \cup Range(w.related_rules) |->
              IF k \in Range(w.related_rules) THEN w ELSE m[k]]

\* "rule_id in waiver_map" for a rule id of any Python type
InWaiverMap(rule_id, waiver_map) ==
  rule_id.ty = "str" /\ rule_id.v \in DOMAIN waiver_map

\* ComplianceChecker._evaluate_rule (compliance.py:226-288).  Line 248 calls
\* create_rule(rule_data): the whole rule dictionary is passed as rule_type
\* and there are no keyword arguments.
_evaluate_rule(rule_data, guide_id, waiver_map, tree, timestamp) ==
  LET rule_id == get(rule_data, "id", PyStr(<<"unknown">>))
      rule_type == get(rule_data, "type", PyStr(<<"unknown">>))
      rule == create_rule(PyDict(rule_data), EmptyDict)
  IN  IF ~rule.ok
      THEN RuleEvaluationResult(rule_id, rule_type, "error",
                                <<"Error evaluating rule: ">> \o rule.msg,
                                <<>>, guide_id, None, timestamp)
      ELSE
        LET evaluated == evaluate(rule.val, TreeFs(tree))
            eval_result == evaluated.val
            rule_passed == eval_result.passed
        IN  IF ~evaluated.ok
            THEN RuleEvaluationResult(rule_id, rule_type, "error",
                                      <<"Error evaluating rule: ">> \o evaluated.msg,
                                      <<>>, guide_id, None, timestamp)
            ELSE IF ~rule_passed /\ ~Hashable(rule_id)
            THEN RuleEvaluationResult(rule_id, rule_type, "error",
                                      <<"Error evaluating rule: ", "unhashable type">>,
                                      <<>>, guide_id, None, timestamp)
            ELSE IF ~rule_passed /\ InWaiverMap(rule_id, waiver_map)
            THEN LET waiver == waiver_map[rule_id.v]
                 IN  RuleEvaluationResult(rule_id, rule_type, "waived",
                                          pystr(rule_id) \o <<" waived by ">> \o waiver.waiver_id,
                                          eval_result.details, guide_id,
                                          Some(waiver.waiver_id), timestamp)
            ELSE RuleEvaluationResult(rule_id, rule_type,
                                      IF rule_passed THEN "pass" ELSE "fail",
                                      eval_result.message, eval_result.details,
                                      guide_id, None, timestamp)

RECURSIVE EvaluateRules_reversed(_, _, _, _, _)
\* a variant that reports the rules of a guide last to first
EvaluateRules_reversed(rules_data, guide_id, waiver_map, tree, timestamp) ==
  IF rules_data = <<>> THEN <<>>
  ELSE EvaluateRules_reversed(Tail(rules_data), guide_id, waiver_map, tree, timestamp)
       \o <<_evaluate_rule(Head(rules_data).v, guide_id, waiver_map, tree, timestamp)>>

RECURSIVE EvaluateRules(_, _, _, _, _)
\* the loop over rules_data of run_compliance_check (compliance.py:153-160)
EvaluateRules(rules_data, guide_id, waiver_map, tree, timestamp) ==
  IF rules_data = <<>> THEN <<>>
  ELSE <<_evaluate_rule(Head(rules_data).v, guide_id, waiver_map, tree, timestamp)>>
       \o EvaluateRules(Tail(rules_data), guide_id, waiver_map, tree, timestamp)

\* a variant that evaluates the rules in front of an invalid rule before it
\* reports the parse error
GuideResults_partial(guide, waiver_map, tree, timestamp) ==
  IF ~guide.exists
  THEN <<RuleEvaluationResult(PyStr(<<"discovery-error">>), PyStr(<<"discovery">>),
                              "error", <<"Guide file not found: ", guide.path>>,
                              <<guide.path>>, guide.stem, None, timestamp)>>
  ELSE LET rules_data == extract_rules(guide)
       IN  IF rules_data.ok
           THEN EvaluateRules(rules_data.val, guide.stem, waiver_map, tree, timestamp)
           ELSE (IF guide.content.text = "yaml" /\ guide.content.fm.ty = "dict"
                    /\ get(guide.content.fm.v, "rules", PyNone).ty = "list"
                    /\ Len(guide.content.fm.v.rules.v) > 1
                 THEN EvaluateRules(<<guide.content.fm.v.rules.v[1]>>, guide.stem,
                                    waiver_map, tree, timestamp)
                 ELSE <<>>)
                \o <<RuleEvaluationResult(PyStr(<<"parse-error">>), PyStr(<<"parsing">>),
                                       "error",
                                       <<"Failed to parse guide: ">> \o rules_data.msg,
                                       <<guide.path>>, guide.stem, None, timestamp)>>

\* the body of the loop of run_compliance_check for one guide
\* (compliance.py:131-173): the results the guide contributes
GuideResults(guide, waiver_map, tree, timestamp) ==
  IF ~guide.exists
  THEN <<RuleEvaluationResult(PyStr(<<"discovery-error">>), PyStr(<<"discovery">>),
                              "error", <<"Guide file not found: ", guide.path>>,
                              <<guide.path>>, guide.stem, None, timestamp)>>
  ELSE LET rules_data == extract_rules(guide)
       IN  IF rules_data.ok
           THEN EvaluateRules(rules_data.val, guide.stem, waiver_map, tree, timestamp)
           ELSE <<RuleEvaluationResult(PyStr(<<"parse-error">>), PyStr(<<"parsing">>),
                                       "error",
                                       <<"Failed to parse guide: ">> \o rules_data.msg,
                                       <<guide.path>>, guide.stem, None, timestamp)>>

RECURSIVE CheckGuides(_, _, _, _)
CheckGuides(guides, waiver_map, tree, timestamp) ==
  IF guides = <<>> THEN <<>>
  ELSE GuideResults(Head(guides), waiver_map, tree, timestamp)
       \o CheckGuides(Tail(guides), waiver_map, tree, timestamp)

\* ComplianceChecker.run_compliance_check(guides) (compliance.py:94-180) for a
\* list of guides supplied by the caller
run_compliance_check(guides, exists, content, tree, timestamp) ==
  LET waivers == list_waivers(exists, content)
      waiver_map == _build_waiver_map(waivers)
  IN  CheckGuides(guides, waiver_map, tree, timestamp)

(***************************************************************************)
(* The project on disk and the inputs of the operations.                   *)
(***************************************************************************)
Paths == {<<"p1">>, <<"p2">>}

TsTok == <<"t0", "t1", "t2", "t3", "t4">>
\* datetime.now(timezone.utc).strftime(...) at clock value n
Ts(n) == <<TsTok[n + 1]>>

RuleR1 ==
  PyDict([id |-> PyStr(<<"r1">>), type |-> PyStr(<<"file_exists">>),
          description |-> PyStr(<<"d">>), path |-> PyStr(<<"p1">>)])
RuleR2 ==
  PyDict([id |-> PyStr(<<"r2">>), type |-> PyStr(<<"file_exists">>),
          description |-> PyStr(<<"d">>), path |-> PyStr(<<"p2">>)])
RuleNoPath ==
  PyDict([id |-> PyStr(<<"r3">>), type |-> PyStr(<<"file_exists">>),
          description |-> PyStr(<<"d">>)])

Guide(name, exists, text, fm) ==
  [path |-> name, stem |-> name, exists |-> exists,
   content |-> [text |-> text, fm |-> fm]]

\* the guide files of the project
GuideFiles ==
  [gA |-> Guide("gA", TRUE, "yaml", PyDict([rules |-> PyList(<<RuleR1, RuleR2>>)])),
   gPlain |-> Guide("gPlain", TRUE, "plain", PyNone),
   gMissing |-> Guide("gMissing", FALSE, "plain", PyNone),
   gYaml |-> Guide("gYaml", TRUE, "yaml_error", PyNone),
   gNotMap |-> Guide("gNotMap", TRUE, "yaml", PyStr(<<"a">>)),
   gRulesStr |-> Guide("gRulesStr", TRUE, "yaml", PyDict([rules |-> PyStr(<<"a">>)])),
   gBadRule |-> Guide("gBadRule", TRUE, "yaml", PyDict([rules |-> PyList(<<RuleR1, RuleNoPath>>)]))]

GuideNames == DOMAIN GuideFiles

GuideLists == UNION {[1..n -> GuideNames] : n \in 0..MaxGuides}

GuidesOf(names) == [i \in 1..Len(names) |-> GuideFiles[names[i]]]

R_a == <<"a">>
R_500 == <<"x498", "a", "a">>
R_501 == <<"x498", "a", "a", "a">>
R_pad500 == <<SP, "x498", "a", "a">>
R_empty == <<>>
R_blank == <<SP, NL, SP>>
R_trim == <<SP, "a", SP>>
R_multi == <<"a", NL, "b">>
R_inject == <<"a", NL, HDR, WPFX, "0", "0", "7">>

\* create_waiver arguments <<reason, related_rules, created_by>> of the
\* waiver store specification
StoreInputs ==
  {<<R_a, None, None>>,
   <<R_a, Some(<<<<"r1">>>>), Some(<<"bob">>)>>,
   <<R_500, Some(<<<<"r1">>, <<"r2">>>>), None>>,
   <<R_trim, Some(<<>>), None>>,
   <<R_multi, Some(<<<<"r1">>>>), None>>,
   <<R_inject, None, None>>,
   <<R_empty, None, None>>,
   <<R_blank, Some(<<<<"r1">>>>), None>>,
   <<R_501, None, None>>,
   <<R_pad500, None, None>>}

\* create_waiver arguments of the compliance check specification
CheckInputs ==
  {<<R_a, None, None>>,
   <<R_a, Some(<<<<"r1">>>>), None>>,
   <<R_a, Some(<<<<"r1">>, <<"r2">>>>), None>>,
   <<R_blank, Some(<<<<"r1">>>>), None>>}

(***************************************************************************)
(* GuideCacheManager (caching.py).  A markdown file of the tracked          *)
(* directories is a path with an mtime; the clock and the mtimes count     *)
(* steps of ClockStep seconds.                                              *)
(***************************************************************************)
MaxTicks == 3
MaxFileOps == 3

CACHE_EXPIRY_SECONDS == 3600
ClockStep == 1800

\* markdown files under specs and context/references, relative to project_root
P_A == <<"specs/", "a.md">>
P_B == <<"specs/", "b.md">>
\* the file b.md of the directory specs/a.md:0.0specs
P_X == <<"specs/", "a.md", ":", "0", ".0", "specs/", "b.md">>
P_R == <<"context/references/", "r.md">>
P_G == <<"specs/", "my", SP, "guide.md">>

TrackedPaths == {P_A, P_B, P_X, P_R}

\* sorted(dir_path.glob("**/*.md")) of specs followed by that of
\* context/references: paths compare part by part
GlobOrder == <<P_A, P_X, P_B, P_R>>

\* f"{mtime}" of a float without fractional part
str_float(n) == str_int(n) \o <<".0">>

\* hashlib.md5 taken as collision-free: the digest stands for the bytes hashed
hexdigest(data) == <<"md5:">> \o data

RECURSIVE HashUpdates(_, _)
\* the bytes fed to hash_obj.update, one f"{rel_path}:{mtime}" per markdown file
HashUpdates(order, files) ==
  IF order = <<>> THEN <<>>
  ELSE LET md_file == Head(order)
       IN  (IF files[md_file] = None THEN <<>>
            ELSE md_file \o <<":">> \o str_float(files[md_file][1] * ClockStep))
           \o HashUpdates(Tail(order), files)

\* GuideCacheManager._get_project_hash (caching.py:36-60)
_get_project_hash(files) == hexdigest(HashUpdates(GlobOrder, files))

RECURSIVE WriteLines(_)
WriteLines(paths) ==
  IF paths = <<>> THEN <<>> ELSE Head(paths) \o <<NL>> \o WriteLines(Tail(paths))

\* GuideCacheManager.save_guides (caching.py:124-145): the cache file written
save_guides(guide_list, files, time) ==
  [content |-> _get_project_hash(files) \o <<NL>> \o WriteLines(guide_list),
   mtime |-> time]

\* f.readlines(), each line without its line end
readlines(content) ==
  LET parts == split(content, NL)
  IN  IF parts[Len(parts)] = <<>> THEN SubSeq(parts, 1, Len(parts) - 1) ELSE parts

\* GuideCacheManager._is_cache_valid (caching.py:62-88), the cache file exists
_is_cache_valid(cached_hash, cache, files, time) ==
  LET age_seconds == (time - cache.mtime) * ClockStep
  IN  IF age_seconds > CACHE_EXPIRY_SECONDS THEN FALSE
      ELSE IF _get_project_hash(files) # cached_hash THEN FALSE
      ELSE TRUE

NonEmpty(line) == line # <<>>

\* GuideCacheManager.get_guides (caching.py:90-122): None, or Some list of paths
get_guides(cache, files, time) ==
  IF cache = None THEN None
  ELSE LET lines == readlines(cache[1].content)
       IN  IF lines = <<>> THEN None
           ELSE IF ~_is_cache_valid(strip(lines[1]), cache[1], files, time) THEN None
           ELSE Some(SelectSeq(StripAll(Tail(lines)), NonEmpty))

\* the guide lists handed to save_guides
CacheGuideLists == {<<>>, <<P_A>>, <<P_B, P_A>>, <<P_G, P_A, P_G>>}

(***************************************************************************)
(* ComplianceReportGenerator (report.py) and the check-compliance command. *)
(***************************************************************************)
MaxResults == 3

CountStatus(results, status) ==
  Cardinality({i \in DOMAIN results : results[i].status = status})

SummaryRow(label, count) == <<"| ", label, " | ">> \o str_int(count) \o <<" |", NL>>

\* a variant that takes an empty result list for a compliant one
generate_summary_section_noempty(results) ==
  LET pass_count == CountStatus(results, "pass")
      fail_count == CountStatus(results, "fail")
      waived_count == CountStatus(results, "waived")
      error_count == CountStatus(results, "error")
      total == Len(results)
      overall_status ==
        IF fail_count > 0 THEN <<"PARTIAL", " (failures found)">>
        ELSE IF error_count > 0 THEN <<"PARTIAL", " (errors encountered)">>
        ELSE <<"COMPLIANT", " (">> \o str_int(pass_count) \o <<" passed)">>
  IN  <<"## Summary", NL, NL, "**Overall Status**: ">> \o overall_status \o <<NL, NL>>
      \o <<"| Metric | Count |", NL, "|--------|-------|", NL>>
      \o SummaryRow("Total Rules", total)
      \o SummaryRow("Passed", pass_count)
      \o SummaryRow("Failed", fail_count)
      \o SummaryRow("Waived", waived_count)
      \o SummaryRow("Errors", error_count) \o <<NL>>

\* ComplianceReportGenerator.generate_summary_section (report.py:102-141); the
\* emoji in front of the status and of the row labels are left out
generate_summary_section(results) ==
  LET pass_count == CountStatus(results, "pass")
      fail_count == CountStatus(results, "fail")
      waived_count == CountStatus(results, "waived")
      error_count == CountStatus(results, "error")
      total == Len(results)
      overall_status ==
        IF fail_count > 0 THEN <<"PARTIAL", " (failures found)">>
        ELSE IF error_count > 0 THEN <<"PARTIAL", " (errors encountered)">>
        ELSE IF total = 0 THEN <<"NO RULES", " (no guides found)">>
        ELSE <<"COMPLIANT", " (">> \o str_int(pass_count) \o <<" passed)">>
  IN  <<"## Summary", NL, NL, "**Overall Status**: ">> \o overall_status \o <<NL, NL>>
      \o <<"| Metric | Count |", NL, "|--------|-------|", NL>>
      \o SummaryRow("Total Rules", total)
      \o SummaryRow("Passed", pass_count)
      \o SummaryRow("Failed", fail_count)
      \o SummaryRow("Waived", waived_count)
      \o SummaryRow("Errors", error_count) \o <<NL>>

\* ComplianceReportGenerator.generate_report (report.py:38-75): the header and
\* the summary; the sections that list the guides and the rules by status
\* follow in the file and are left out
generate_report(results, project_name, timestamp) ==
  <<"# Compliance Report", NL, NL, "**Project**: ", project_name, NL, "**Generated**: ">>
  \o timestamp \o <<NL, NL>> \o generate_summary_section(results)

\* PurePath.relative_to: a path is its anchor ("/" when absolute) and its parts
relative_to(path, other) ==
  IF /\ path.anchor = other.anchor
     /\ Len(other.parts) <= Len(path.parts)
     /\ SubSeq(path.parts, 1, Len(other.parts)) = other.parts
  THEN Ok([anchor |-> "", parts |-> SubSeq(path.parts, Len(other.parts) + 1, Len(path.parts))])
  ELSE Raise("ValueError", <<"is not in the subpath of">>)

\* report_file of ComplianceReportGenerator(): Path(".") / "compliance-report.md"
ReportPath == [anchor |-> "", parts |-> <<"compliance-report.md">>]

\* Path.cwd(), an absolute path
Cwd == [anchor |-> "/", parts |-> <<"work", "project">>]

\* check_compliance_command (commands/check_compliance.py:44-88) once the
\* checker has returned the results: the report is generated and written, the
\* path of the report is made relative to the working directory for display,
\* and the exit status follows from the failures and errors counted
ReportAndExit(results, timestamp) ==
  LET fail_count == CountStatus(results, "fail")
      error_count == CountStatus(results, "error")
      report == Some(generate_report(results, "project", timestamp))
  IN  IF ~relative_to(ReportPath, Cwd).ok THEN [exit_code |-> 1, report |-> report]
      ELSE IF fail_count > 0 THEN [exit_code |-> 1, report |-> report]
      ELSE IF error_count > 0 THEN [exit_code |-> 1, report |-> report]
      ELSE [exit_code |-> 0, report |-> report]

\* check_compliance_command (commands/check_compliance.py:14-88) for the list
\* of guides its discovery returned: the exit status and the report written
check_compliance_command(guide_list, exists, content, tree, timestamp) ==
  IF guide_list = <<>> THEN [exit_code |-> 1, report |-> None]
  ELSE ReportAndExit(run_compliance_check(guide_list, exists, content, tree, timestamp), timestamp)

\* the result lists handed to the report generator
ResultLists ==
  LET R(status) == RuleEvaluationResult(PyStr(<<"r1">>), PyStr(<<"file_exists">>), status, <<>>, <<>>, "gA", None, Ts(0))
  IN  UNION {[1..n -> {R(status) : status \in {"pass", "fail", "waived", "error"}}] : n \in 0..MaxResults}

(***************************************************************************)
(* Rule entries and guide files handed to the rule parser.                 *)
(***************************************************************************)
MaxRules == 2

RuleDep ==
  PyDict([id |-> PyStr(<<"r4">>), type |-> PyStr(<<"dependency_present">>),
          description |-> PyStr(<<"d">>), file |-> PyStr(<<"f">>), package |-> PyStr(<<"p">>)])
RuleTxt ==
  PyDict([id |-> PyStr(<<"r5">>), type |-> PyStr(<<"text_includes">>),
          description |-> PyStr(<<"d">>), file |-> PyStr(<<"f">>), text |-> PyStr(<<"t">>)])

\* the dict d with d[key] = x, and the dict d without key
With(d, key, x) == [n \in DOMAIN d \cup {key} |-> IF n = key THEN x ELSE d[n]]
Without(d, key) == [n \in DOMAIN d \ {key} |-> d[n]]

FieldNames ==
  {"id", "type", "description", "path", "file", "package", "text",
   "version", "division", "case_sensitive"}

FieldValues ==
  <<PyStr(<<"v">>), PyStr(<<>>), PyStr(<<SP>>), PyInt(<<"7">>), PyNone, PyBool(TRUE),
    PyList(<<PyStr(<<"file_exists">>)>>),
    PyStr(<<"file_exists">>), PyStr(<<"dependency_present">>), PyStr(<<"text_includes">>)>>

BaseRules == <<RuleR1, RuleDep, RuleTxt>>

\* the values handed to validate_rule_structure, by index <<b, key, x>>: a
\* non-mapping (b = 0), or the rule BaseRules[b] as it is (key = ""), without
\* the key (x = 0) or with the key set to FieldValues[x]
RuleInputIndex ==
  {<<b, "", 0>> : b \in 0..Len(BaseRules)}
  \cup ((1..Len(BaseRules)) \X FieldNames \X (0..Len(FieldValues)))

RuleInput(t) ==
  IF t[1] = 0 THEN PyStr(<<"a">>)
  ELSE IF t[2] = "" THEN BaseRules[t[1]]
  ELSE IF t[3] = 0 THEN PyDict(Without(BaseRules[t[1]].v, t[2]))
  ELSE PyDict(With(BaseRules[t[1]].v, t[2], FieldValues[t[3]]))

\* the entries of the rules list of a guide
RuleEntries ==
  <<RuleR1, RuleDep, RuleTxt, RuleNoPath, PyStr(<<"a">>),
    PyDict(With(RuleDep.v, "version", PyStr(<<"v">>))),
    PyDict(Without(RuleTxt.v, "id")),
    PyDict(With(RuleR2.v, "type", PyList(<<PyStr(<<"file_exists">>)>>)))>>

\* frontmatter without a rules list
OtherFrontmatter == <<PyNone, PyDict([title |-> PyStr(<<"t">>)]), PyDict([rules |-> PyNone])>>

\* the rules lists of a guide, as lists of indices into RuleEntries
RuleListIndex == UNION {[1..n -> 1..Len(RuleEntries)] : n \in 0..MaxRules}

GuideWithRules(l) ==
  Guide("g", TRUE, "yaml",
        PyDict([title |-> PyStr(<<"t">>), rules |-> PyList([i \in 1..Len(l) |-> RuleEntries[l[i]]])]))

(***************************************************************************)
(* RuleEngine.evaluate_all and the rules registered with an engine.        *)
(***************************************************************************)
MaxRegistered == 2

\* the entry evaluate_all appends for a rule (engine.py:65-88)
EngineEntry(rule, evaluation) ==
  IF evaluation.ok
  THEN [rule_id |-> rule.id, rule_type |-> rule.TYPE, description |-> rule.description,
        passed |-> evaluation.val.passed, message |-> evaluation.val.message,
        details |-> evaluation.val.details, error |-> FALSE]
  ELSE [rule_id |-> rule.id, rule_type |-> rule.TYPE, description |-> rule.description,
        passed |-> FALSE, message |-> <<"Error evaluating rule">>,
        details |-> <<"Error: ">> \o evaluation.msg, error |-> TRUE]

RECURSIVE evaluate_all_propagating(_, _)
\* a variant without the try block: the first exception ends the evaluation
evaluate_all_propagating(rules, fs) ==
  IF rules = <<>> THEN Ok(<<>>)
  ELSE LET evaluation == evaluate(Head(rules), fs)
           rest == evaluate_all_propagating(Tail(rules), fs)
       IN  IF ~evaluation.ok THEN evaluation
           ELSE IF ~rest.ok THEN rest
           ELSE Ok(<<EngineEntry(Head(rules), evaluation)>> \o rest.val)

RECURSIVE evaluate_all(_, _)
\* RuleEngine.evaluate_all (engine.py:47-91): "error" is FALSE in an entry
\* that has no 'error' key
evaluate_all(rules, fs) ==
  IF rules = <<>> THEN Ok(<<>>)
  ELSE LET evaluation == evaluate(Head(rules), fs)
           rest == evaluate_all(Tail(rules), fs)
       IN  Ok(<<EngineEntry(Head(rules), evaluation)>> \o rest.val)

\* files of the project the rules name
F_REQ == <<"requirements.txt">>
F_LIC == <<"LICENSE">>
RuleFiles == {F_REQ, F_LIC}

\* texts of the files
FileTexts ==
  {<<>>,
   <<"requests", "==", "2.0", NL, "flask", NL>>,
   <<"flask", "2.0", NL, "Requests", NL>>,
   <<"MIT", SP, "License">>}

FsEntries == {FsMissing, FsDir, FsUnreadable, FsNoAccess} \cup {FsFile(c) : c \in FileTexts}

FileSystems == [RuleFiles -> FsEntries]

\* rule objects: the constructors called with the arguments from_yaml passes
FileExistsRule(rule_id, path) ==
  [TYPE |-> "file_exists", id |-> PyStr(rule_id), description |-> PyStr(<<"d">>), path |-> path]
DependencyPresentRule(rule_id, file, package, version) ==
  [TYPE |-> "dependency_present", id |-> PyStr(rule_id), description |-> PyStr(<<"d">>),
   file |-> file, package |-> package, version |-> version]
TextIncludesRule(rule_id, file, text, case_sensitive) ==
  [TYPE |-> "text_includes", id |-> PyStr(rule_id), description |-> PyStr(<<"d">>),
   file |-> file, text |-> text, case_sensitive |-> case_sensitive]
BrokenRule(rule_id) ==
  [TYPE |-> "broken", id |-> PyStr(rule_id), description |-> PyStr(<<"d">>)]

\* the version constraints of the dependency rules: none, constraints written
\* as strings, and the number YAML reads from "version: 2"
Versions ==
  <<PyNone, PyStr(<<">=", "2.0">>), PyStr(<<"~", "9.9">>), PyStr(<<">=">>), PyStr(<<>>),
    PyInt(<<"2">>)>>

\* the rules handed to the engine
RulePool ==
  <<FileExistsRule(<<"f1">>, PyStr(F_REQ)),
    FileExistsRule(<<"f2">>, PyStr(F_LIC)),
    FileExistsRule(<<"f3">>, PyInt(<<"7">>)),
    BrokenRule(<<"b1">>),
    TextIncludesRule(<<"t1">>, PyStr(F_LIC), PyStr(<<"MIT">>), PyBool(TRUE)),
    TextIncludesRule(<<"t2">>, PyStr(F_LIC), PyStr(<<"mit">>), PyBool(FALSE)),
    TextIncludesRule(<<"t3">>, PyStr(F_REQ), PyStr(<<"flask">>), PyBool(TRUE))>>
  \o [i \in DOMAIN Versions |->
        DependencyPresentRule(<<"d">> \o str_int(i), PyStr(F_REQ), PyStr(<<"requests">>), Versions[i])]
  \o [i \in DOMAIN Versions |->
        DependencyPresentRule(<<"e">> \o str_int(i), PyStr(F_REQ), PyStr(<<"flask">>), Versions[i])]

(***************************************************************************)
(* MetricsCollector (metrics.py).  Only the fields the compliance check    *)
(* sets are kept of a ComplianceCheckMetrics.                              *)
(***************************************************************************)
MaxChecks == 2

\* ComplianceCheckMetrics() created at time t (metrics.py:42-50)
ComplianceCheckMetrics(t) ==
  [start_time |-> t, end_time |-> None, guides_count |-> 0, rules_count |-> 0]

\* MetricsCollector.start_check (metrics.py:100-104): the new current_check
start_check(t) == Some(ComplianceCheckMetrics(t))

\* a variant that keeps the check it ended as the current check
end_check_keep(current, hist, t) ==
  IF current = None THEN [ret |-> None, current_check |-> None, history |-> hist]
  ELSE LET done == [current[1] EXCEPT !.end_time = Some(t)]
       IN  [ret |-> Some(done), current_check |-> Some(done), history |-> Append(hist, done)]

\* MetricsCollector.end_check (metrics.py:106-116): what it returns and the
\* collector it leaves
end_check(current, hist, t) ==
  IF current = None THEN [ret |-> None, current_check |-> None, history |-> hist]
  ELSE LET done == [current[1] EXCEPT !.end_time = Some(t)]
       IN  [ret |-> Some(done), current_check |-> None, history |-> Append(hist, done)]

\* the use run_compliance_check makes of the collector (compliance.py:110,
\* 122, 176-177): start_check, the two counts, end_check
CheckMetrics(hist, n_guides, n_results, t) ==
  LET metrics == [ComplianceCheckMetrics(t) EXCEPT !.guides_count = n_guides,
                                                   !.rules_count = n_results]
  IN  end_check(Some(metrics), hist, t)

(***************************************************************************)
(* State.                                                                  *)
(***************************************************************************)
VARIABLES
  dirExists,   \* the directory .specify exists
  fileExists,  \* the waiver log .specify/waivers.md exists
  log,         \* content of the waiver log
  tree,        \* the paths that exist under project_root
  now,         \* the clock
  created,     \* the waivers returned by the successful create_waiver calls
  guides,      \* the guide list the caller hands to run_compliance_check
  mdFiles,     \* the markdown files of the tracked directories with their mtime
  cacheFile,   \* .specify/.cache/guides_cache.txt: None, or its lines and mtime
  clock,       \* the wall clock of the guide cache, in steps of ClockStep seconds
  saved,       \* the guide list and the tracked files of the last save_guides
  fileOps,     \* the number of changes made to the tracked directories
  reportFile,  \* compliance-report.md: None, or its content
  engineRules, \* RuleEngine.rules: the rules registered, in registration order
  fsys,        \* the files the rules of the engine look at
  current_check, \* MetricsCollector.current_check: None, or the check in progress
  history,     \* MetricsCollector.history
  endCalls,    \* the number of end_check calls that found a check in progress
  pc,          \* for each process, where it is in create_waiver
  pending,     \* for each process, the waiver it is about to append
  overlapped,  \* some create_waiver began while another was in progress
  last         \* the last operation: its name, arguments and outcome

vars == <<dirExists, fileExists, log, tree, now, created, guides, mdFiles, cacheFile, clock, saved, fileOps, reportFile, engineRules, fsys, current_check, history, endCalls, pc, pending, overlapped, last>>

\* the state of the waiver store and the compliance checker
storeVars == <<dirExists, fileExists, log, tree, now, created, guides>>

\* the state of the guide cache
cacheVars == <<mdFiles, cacheFile, clock, saved, fileOps>>

\* the rule engine and the files its rules look at
engineVars == <<engineRules, fsys>>

\* the metrics collector
metricsVars == <<current_check, history, endCalls>>

\* the processes that run create_waiver step by step
raceVars == <<pc, pending, overlapped>>

\* the state outside the waiver store, the checker, the cache and the report
extraVars == <<engineVars, metricsVars, raceVars>>

\* the state of the guide cache and the compliance report, and the rest
otherVars == <<cacheVars, reportFile, extraVars>>

\* the processes
Procs == {1, 2}

\* an engine without rules, a collector without checks, idle processes
InitExtra ==
  /\ engineRules = <<>>
  /\ fsys = <<>>
  /\ current_check = None
  /\ history = <<>>
  /\ endCalls = 0
  /\ pc = [p \in Procs |-> "idle"]
  /\ pending = [p \in Procs |-> None]
  /\ overlapped = FALSE

\* a project whose tracked directories are empty and that has no guide cache
InitCacheEmpty ==
  /\ mdFiles = [p \in TrackedPaths |-> None]
  /\ cacheFile = None
  /\ clock = 0
  /\ saved = None
  /\ fileOps = 0
  /\ reportFile = None
  /\ InitExtra

Call(op, arg, ok, ret) == [op |-> op, arg |-> arg, ok |-> ok, ret |-> ret]

\* a project without a waiver log
InitProject ==
  /\ dirExists \in BOOLEAN
  /\ fileExists = FALSE
  /\ log = <<>>
  /\ tree = {}
  /\ now = 0
  /\ created = <<>>
  /\ InitCacheEmpty
  /\ last = Call("init", <<>>, TRUE, <<>>)

Init ==
  /\ InitProject
  /\ guides \in GuideLists

\* a variant whose length limit is off by one
ValidateReason_ge(reason) ==
  IF reason = <<>> \/ strip(reason) = <<>>
  THEN Raise("ValueError", <<"Waiver reason cannot be empty">>)
  ELSE IF len(reason) >= 500
  THEN Raise("ValueError", <<"Waiver reason cannot exceed 500 characters">>)
  ELSE Ok(TRUE)

\* the validation of the reason in create_waiver (waiver.py:163-169)
ValidateReason(reason) ==
  IF reason = <<>> \/ strip(reason) = <<>>
  THEN Raise("ValueError", <<"Waiver reason cannot be empty">>)
  ELSE IF len(reason) > 500
  THEN Raise("ValueError", <<"Waiver reason cannot exceed 500 characters">>)
  ELSE Ok(TRUE)

\* WaiverManager.create_waiver (waiver.py:143-193)
create_waiver(reason, related_rules, created_by) ==
  IF ~ValidateReason(reason).ok
  THEN /\ last' = Call("create_waiver", <<reason, related_rules, created_by>>, FALSE,
                       ValidateReason(reason))
       /\ UNCHANGED <<dirExists, fileExists, log, tree, now, created, guides>>
       /\ UNCHANGED otherVars
  ELSE
    LET timestamp == Ts(now)
        existing_waivers == parse_waivers_file(fileExists, log)
        waiver_id == generate_waiver_id(existing_waivers)
        waiver == Waiver(waiver_id, strip(reason), timestamp, related_rules, created_by)
    IN  /\ Len(created) < MaxWaivers
        /\ dirExists' = TRUE
        /\ fileExists' = TRUE
        /\ log' = append_to_waivers_file(fileExists, log, waiver)
        /\ created' = Append(created, waiver)
        /\ last' = Call("create_waiver", <<reason, related_rules, created_by>>, TRUE, waiver)
        /\ UNCHANGED <<tree, now, guides>>
        /\ UNCHANGED otherVars

ListWaivers ==
  /\ last' = Call("list_waivers", <<>>, TRUE, list_waivers(fileExists, log))
  /\ UNCHANGED <<dirExists, fileExists, log, tree, now, created, guides>>
  /\ UNCHANGED otherVars

GetWaiverById(waiver_id) ==
  /\ last' = Call("get_waiver_by_id", waiver_id, TRUE,
                  get_waiver_by_id(fileExists, log, waiver_id))
  /\ UNCHANGED <<dirExists, fileExists, log, tree, now, created, guides>>
  /\ UNCHANGED otherVars

\* the collector after a compliance check that returned the results
CollectorAfterCheck(results) ==
  LET m == CheckMetrics(history, Len(guides), Len(results), now)
  IN  /\ Len(history) < MaxChecks
      /\ current_check' = m.current_check
      /\ history' = m.history
      /\ endCalls' = endCalls + 1

RunComplianceCheck ==
  /\ last' = Call("run_compliance_check", guides, TRUE,
                  run_compliance_check(GuidesOf(guides), fileExists, log, tree, Ts(now)))
  /\ CollectorAfterCheck(last'.ret)
  /\ UNCHANGED <<dirExists, fileExists, log, tree, now, created, guides>>
  /\ UNCHANGED <<cacheVars, reportFile, engineVars, raceVars>>

\* the environment: time passes, project files are created and deleted
Tick ==
  /\ now < MaxTime
  /\ now' = now + 1
  /\ last' = Call("tick", <<>>, TRUE, <<>>)
  /\ UNCHANGED <<dirExists, fileExists, log, tree, created, guides>>
  /\ UNCHANGED otherVars

CreateProjectFile(p) ==
  /\ p \notin tree
  /\ tree' = tree \cup {p}
  /\ last' = Call("create_file", p, TRUE, <<>>)
  /\ UNCHANGED <<dirExists, fileExists, log, now, created, guides>>
  /\ UNCHANGED otherVars

DeleteProjectFile(p) ==
  /\ p \in tree
  /\ tree' = tree \ {p}
  /\ last' = Call("delete_file", p, TRUE, <<>>)
  /\ UNCHANGED <<dirExists, fileExists, log, now, created, guides>>
  /\ UNCHANGED otherVars

CreateWaiverCheck == \E a \in CheckInputs : create_waiver(a[1], a[2], a[3])
CreateFile == \E p \in Paths : CreateProjectFile(p)
DeleteFile == \E p \in Paths : DeleteProjectFile(p)

\* the compliance checker with its waiver store and the project tree
Next ==
  \/ CreateWaiverCheck
  \/ RunComplianceCheck
  \/ CreateFile
  \/ DeleteFile

Spec == Init /\ [][Next]_vars

CreateWaiverStore == \E a \in StoreInputs : create_waiver(a[1], a[2], a[3])
LookupIds == {<<WPFX, "0", "0", "1">>, <<WPFX, "0", "0", "2">>, <<WPFX, "0", "0", "7">>}
GetWaiver == \E id \in LookupIds : GetWaiverById(id)

\* the waiver store on its own
NextStore ==
  \/ CreateWaiverStore
  \/ ListWaivers
  \/ GetWaiver
  \/ Tick

InitStore ==
  /\ InitProject
  /\ guides = <<>>

SpecStore == InitStore /\ [][NextStore]_vars

(***************************************************************************)
(* generate_waiver_id as a function of the list of existing waivers: the   *)
(* list is drawn from waivers with the ids of IdPool and the function is   *)
(* applied to it.                                                          *)
(***************************************************************************)
\* waiver ids with the number their suffix denotes
IdTable ==
  {<<<<WPFX, "0", "0", "1">>, 1>>, <<<<WPFX, "0", "0", "2">>, 2>>,
   <<<<WPFX, "0", "0", "9">>, 9>>, <<<<WPFX, "0", "1", "0">>, 10>>,
   <<<<WPFX, "0", "9", "9">>, 99>>, <<<<WPFX, "1", "0", "0">>, 100>>,
   <<<<WPFX, "9", "9", "8">>, 998>>, <<<<WPFX, "9", "9", "9">>, 999>>,
   <<<<WPFX, "1", "0", "0", "0">>, 1000>>, <<<<WPFX, "0", "0", "0", "7">>, 7>>,
   <<<<WPFX, "1", "2">>, 12>>}

IdPool == {p[1] : p \in IdTable}

ExistingLists ==
  UNION {[1..n -> {Waiver(id, R_a, Ts(0), None, None) : id \in IdPool}] : n \in 0..MaxExisting}

InitGen ==
  /\ dirExists = TRUE
  /\ fileExists = FALSE
  /\ log = <<>>
  /\ tree = {}
  /\ now = 0
  /\ created = <<>>
  /\ guides = <<>>
  /\ InitCacheEmpty
  /\ \E ws \in ExistingLists : last = Call("existing_waivers", ws, TRUE, <<>>)

GenerateWaiverId ==
  /\ last.op = "existing_waivers"
  /\ last' = Call("generate_waiver_id", last.arg, TRUE, generate_waiver_id(last.arg))
  /\ UNCHANGED <<dirExists, fileExists, log, tree, now, created, guides>>
  /\ UNCHANGED otherVars

NextGen == GenerateWaiverId

SpecGen == InitGen /\ [][NextGen]_vars

(***************************************************************************)
(* The guide cache on its own: save_guides, get_guides and clear_cache,    *)
(* while markdown files of the tracked directories are written and removed *)
(* and time passes.                                                        *)
(***************************************************************************)
SaveGuidesOp(guide_list) ==
  /\ cacheFile' = Some(save_guides(guide_list, mdFiles, clock))
  /\ saved' = Some([guides |-> guide_list, files |-> mdFiles, time |-> clock])
  /\ last' = Call("save_guides", guide_list, TRUE, <<>>)
  /\ UNCHANGED <<mdFiles, clock, fileOps>>
  /\ UNCHANGED <<storeVars, reportFile, extraVars>>

GetGuides ==
  /\ last' = Call("get_guides", <<>>, TRUE, get_guides(cacheFile, mdFiles, clock))
  /\ UNCHANGED cacheVars
  /\ UNCHANGED <<storeVars, reportFile, extraVars>>

\* GuideCacheManager.clear_cache (caching.py:147-154)
ClearCache ==
  /\ cacheFile' = None
  /\ last' = Call("clear_cache", <<>>, TRUE, <<>>)
  /\ UNCHANGED <<mdFiles, clock, saved, fileOps>>
  /\ UNCHANGED <<storeVars, reportFile, extraVars>>

\* a markdown file is created or modified: its mtime becomes the current time
WriteMdFile(p) ==
  /\ fileOps < MaxFileOps
  /\ mdFiles[p] # Some(clock)
  /\ mdFiles' = [mdFiles EXCEPT ![p] = Some(clock)]
  /\ fileOps' = fileOps + 1
  /\ last' = Call("write_md", p, TRUE, <<>>)
  /\ UNCHANGED <<cacheFile, clock, saved>>
  /\ UNCHANGED <<storeVars, reportFile, extraVars>>

RemoveMdFile(p) ==
  /\ fileOps < MaxFileOps
  /\ mdFiles[p] # None
  /\ mdFiles' = [mdFiles EXCEPT ![p] = None]
  /\ fileOps' = fileOps + 1
  /\ last' = Call("remove_md", p, TRUE, <<>>)
  /\ UNCHANGED <<cacheFile, clock, saved>>
  /\ UNCHANGED <<storeVars, reportFile, extraVars>>

AdvanceClock ==
  /\ clock < MaxTicks
  /\ clock' = clock + 1
  /\ last' = Call("advance_clock", <<>>, TRUE, <<>>)
  /\ UNCHANGED <<mdFiles, cacheFile, saved, fileOps>>
  /\ UNCHANGED <<storeVars, reportFile, extraVars>>

SaveGuides == \E guide_list \in CacheGuideLists : SaveGuidesOp(guide_list)
WriteMd == \E p \in TrackedPaths : WriteMdFile(p)
RemoveMd == \E p \in TrackedPaths : RemoveMdFile(p)

NextCache ==
  \/ SaveGuides
  \/ GetGuides
  \/ ClearCache
  \/ WriteMd
  \/ RemoveMd
  \/ AdvanceClock

\* a project without a guide cache whose specs directory is empty or holds
\* a.md and b.md
InitCache ==
  /\ dirExists = TRUE
  /\ fileExists = FALSE
  /\ log = <<>>
  /\ tree = {}
  /\ now = 0
  /\ created = <<>>
  /\ guides = <<>>
  /\ mdFiles \in {[p \in TrackedPaths |-> None],
                  [p \in TrackedPaths |-> IF p \in {P_A, P_B} THEN Some(0) ELSE None]}
  /\ cacheFile = None
  /\ clock = 0
  /\ saved = None
  /\ fileOps = 0
  /\ reportFile = None
  /\ InitExtra
  /\ last = Call("init", <<>>, TRUE, <<>>)

SpecCache == InitCache /\ [][NextCache]_vars

(***************************************************************************)
(* generate_summary_section as a function of the result list.              *)
(***************************************************************************)
InitSummary ==
  /\ dirExists = TRUE
  /\ fileExists = FALSE
  /\ log = <<>>
  /\ tree = {}
  /\ now = 0
  /\ created = <<>>
  /\ guides = <<>>
  /\ InitCacheEmpty
  /\ \E results \in ResultLists : last = Call("results", results, TRUE, <<>>)

GenerateSummarySection ==
  /\ last.op = "results"
  /\ last' = Call("generate_summary_section", last.arg, TRUE, generate_summary_section(last.arg))
  /\ UNCHANGED <<storeVars, otherVars>>

NextSummary == GenerateSummarySection

SpecSummary == InitSummary /\ [][NextSummary]_vars

(***************************************************************************)
(* The check-compliance command on a project whose discovery returns the   *)
(* guide list guides.                                                      *)
(***************************************************************************)
CheckComplianceCommand ==
  LET done == check_compliance_command(GuidesOf(guides), fileExists, log, tree, Ts(now))
  IN  /\ reportFile' = IF done.report = None THEN reportFile ELSE done.report
      /\ last' = Call("check_compliance", guides, done.exit_code = 0, done)
      /\ IF guides = <<>> THEN UNCHANGED metricsVars
         ELSE CollectorAfterCheck(run_compliance_check(GuidesOf(guides), fileExists, log,
                                                       tree, Ts(now)))
      /\ UNCHANGED <<storeVars, cacheVars, engineVars, raceVars>>

NextCommand ==
  \/ CheckComplianceCommand
  \/ CreateFile
  \/ DeleteFile

SpecCommand == Init /\ [][NextCommand]_vars

(***************************************************************************)
(* The rule parser as a function of a rule entry and of a guide file.      *)
(***************************************************************************)
InitParser ==
  /\ dirExists = TRUE
  /\ fileExists = FALSE
  /\ log = <<>>
  /\ tree = {}
  /\ now = 0
  /\ created = <<>>
  /\ guides = <<>>
  /\ InitCacheEmpty
  /\ \/ \E t \in RuleInputIndex : last = Call("rule", RuleInput(t), TRUE, <<>>)
     \/ \E n \in GuideNames : last = Call("guide", GuideFiles[n], TRUE, <<>>)
     \/ \E k \in DOMAIN OtherFrontmatter :
          last = Call("guide", Guide("g", TRUE, "yaml", OtherFrontmatter[k]), TRUE, <<>>)
     \/ \E l \in RuleListIndex : last = Call("guide", GuideWithRules(l), TRUE, <<>>)

\* validate_rule_structure(rule) and, as extract_rules calls it,
\* validate_rule_structure(rule, rule.get('type'))
ValidateRuleStructure ==
  /\ last.op = "rule"
  /\ \E explicit \in BOOLEAN :
       LET rule_type == IF explicit /\ last.arg.ty = "dict" THEN get(last.arg.v, "type", PyNone)
                        ELSE PyNone
           r == validate_rule_structure(last.arg, rule_type)
       IN  last' = Call("validate_rule_structure", last.arg, r.ok, r)
  /\ UNCHANGED <<storeVars, otherVars>>

ExtractRules ==
  /\ last.op = "guide"
  /\ LET r == extract_rules(last.arg)
     IN  last' = Call("extract_rules", last.arg, r.ok, r)
  /\ UNCHANGED <<storeVars, otherVars>>

NextParser ==
  \/ ValidateRuleStructure
  \/ ExtractRules

SpecParser == InitParser /\ [][NextParser]_vars

(***************************************************************************)
(* A rule engine on a project: rules are registered, evaluate_all is       *)
(* called, and single rules are evaluated.                                 *)
(***************************************************************************)
\* parts of an initial state that a specification leaves empty
InitNoStore ==
  /\ dirExists = TRUE
  /\ fileExists = FALSE
  /\ log = <<>>
  /\ tree = {}
  /\ now = 0
  /\ created = <<>>
  /\ guides = <<>>

InitNoCache ==
  /\ mdFiles = [p \in TrackedPaths |-> None]
  /\ cacheFile = None
  /\ clock = 0
  /\ saved = None
  /\ fileOps = 0
  /\ reportFile = None

InitNoMetrics ==
  /\ current_check = None
  /\ history = <<>>
  /\ endCalls = 0

InitNoRace ==
  /\ pc = [p \in Procs |-> "idle"]
  /\ pending = [p \in Procs |-> None]
  /\ overlapped = FALSE

InitEngine ==
  /\ InitNoStore
  /\ InitNoCache
  /\ InitNoMetrics
  /\ InitNoRace
  /\ engineRules = <<>>
  /\ fsys \in FileSystems
  /\ last = Call("init", <<>>, TRUE, <<>>)

\* RuleEngine.register_rule (engine.py:38-45)
RegisterRule(rule) ==
  /\ Len(engineRules) < MaxRegistered
  /\ engineRules' = Append(engineRules, rule)
  /\ last' = Call("register_rule", rule, TRUE, <<>>)
  /\ UNCHANGED <<fsys, metricsVars, raceVars>>
  /\ UNCHANGED <<storeVars, cacheVars, reportFile>>

EvaluateAll ==
  LET r == evaluate_all(engineRules, fsys)
  IN  /\ last' = Call("evaluate_all", engineRules, r.ok, r)
      /\ UNCHANGED <<storeVars, otherVars>>

\* rule.evaluate(project_root) of one rule
EvaluateRule(rule) ==
  LET r == evaluate(rule, fsys)
  IN  /\ last' = Call("evaluate", rule, r.ok, r)
      /\ UNCHANGED <<storeVars, otherVars>>

\* the rules registered: the file and text rules, the broken rule, and the
\* dependency rules for requests without and with a version
EnginePool == SubSeq(RulePool, 1, 9)

Register == \E i \in DOMAIN EnginePool : RegisterRule(EnginePool[i])

NextEngine ==
  \/ Register
  \/ EvaluateAll

SpecEngine == InitEngine /\ [][NextEngine]_vars

\* the evaluation of one rule as a function of the rule and of the files
Evaluate == \E i \in DOMAIN RulePool : EvaluateRule(RulePool[i])

NextRule == Evaluate

SpecRule == InitEngine /\ [][NextRule]_vars

(***************************************************************************)
(* Properties.                                                             *)
(***************************************************************************)
IsRun == last.op = "run_compliance_check"

\* the guide exists and its rules can be extracted
ParseOk(g) == g.exists /\ extract_rules(g).ok

\* the result of evaluating a file_exists rule definition on the tree
RuleOutcome(rule, t) ==
  FileExistsRule_evaluate(FileExistsRule_from_yaml(rule.v).val, t)

\* the ids of the waivers of the log that list the rule id
CoveringIds(rid) ==
  LET ws == list_waivers(fileExists, log)
  IN  {ws[i].waiver_id : i \in {k \in DOMAIN ws : rid \in Range(ws[k].related_rules)}}

\* the results of the last run for a rule of a guide
ResultsFor(g, rule) ==
  {k \in DOMAIN last.ret :
     last.ret[k].guide_id = g.stem /\ last.ret[k].rule_id = rule.v.id}

\* P(g, rule) for every rule of every guide of the list that exists and parses
ForAllParsedRules(P(_, _)) ==
  \A i \in DOMAIN guides :
    LET g == GuideFiles[guides[i]]
    IN  ParseOk(g) =>
          \A j \in DOMAIN extract_rules(g).val : P(g, extract_rules(g).val[j])

MaxOf(S) == CHOOSE x \in S : \A y \in S : y <= x

IsPrefix(a, b) == Len(a) <= Len(b) /\ SubSeq(b, 1, Len(a)) = a

\* C1: in a compliance run, every parsed rule whose evaluation fails and whose
\* id is listed in related_rules of a waiver of the log yields a result with
\* status WAIVED and the id of a covering waiver
C1_FailedCoveredRuleIsWaived ==
  IsRun =>
    LET P(g, rule) ==
          (~RuleOutcome(rule, tree).passed /\ CoveringIds(rule.v.id.v) # {}) =>
            /\ ResultsFor(g, rule) # {}
            /\ \A k \in ResultsFor(g, rule) :
                 /\ last.ret[k].status = "waived"
                 /\ last.ret[k].waiver_id # None
                 /\ last.ret[k].waiver_id[1] \in CoveringIds(rule.v.id.v)
    IN  ForAllParsedRules(P)

\* C2: in a compliance run, every parsed rule whose target satisfies it yields
\* a result with status PASS and no waiver id, with or without a waiver that
\* lists the rule
C2_PassingRuleIsPass ==
  IsRun =>
    LET P(g, rule) ==
          RuleOutcome(rule, tree).passed =>
            /\ ResultsFor(g, rule) # {}
            /\ \A k \in ResultsFor(g, rule) :
                 last.ret[k].status = "pass" /\ last.ret[k].waiver_id = None
    IN  ForAllParsedRules(P)

\* C3: a file_exists rule whose path is absent and that no waiver covers
\* yields a FAIL result whose message contains "not found" and the path
C3_AbsentFileFails ==
  IsRun =>
    LET P(g, rule) ==
          (rule.v.path.v \notin tree /\ CoveringIds(rule.v.id.v) = {}) =>
            /\ ResultsFor(g, rule) # {}
            /\ \A k \in ResultsFor(g, rule) :
                 /\ last.ret[k].status = "fail"
                 /\ M_NOT_FOUND \in Range(last.ret[k].message)
                 /\ Contains(last.ret[k].message, rule.v.path.v)
    IN  ForAllParsedRules(P)

\* C4: a rule whose check fails is reported FAIL by the runs made before a
\* waiver listing it was created, and WAIVED with the id returned by the latest
\* create_waiver call that listed it by every run made after
C4_WaivedAfterCreateWaiver ==
  IsRun =>
    LET P(g, rule) ==
          ~RuleOutcome(rule, tree).passed =>
            LET cov == {c \in DOMAIN created :
                          rule.v.id.v \in Range(created[c].related_rules)}
            IN  /\ ResultsFor(g, rule) # {}
                /\ \A k \in ResultsFor(g, rule) :
                     IF cov = {} THEN last.ret[k].status = "fail"
                     ELSE /\ last.ret[k].status = "waived"
                          /\ last.ret[k].waiver_id = Some(created[MaxOf(cov)].waiver_id)
    IN  ForAllParsedRules(P)

MissingGuides == {"gMissing"}
ParseFailGuides == {"gYaml", "gNotMap", "gRulesStr", "gBadRule"}
BrokenGuides == MissingGuides \cup ParseFailGuides

C6_RoundTrip ==
  (last.op = "create_waiver" /\ last.ok) =>
    LET ws == parse_waivers_file(fileExists, log)
        w == last.ret
    IN  \E i \in DOMAIN ws :
          /\ ws[i].waiver_id = w.waiver_id
          /\ ws[i].reason = w.reason
          /\ ws[i].timestamp = w.timestamp
          /\ ws[i].related_rules = w.related_rules
          /\ ws[i].created_by = w.created_by

\* C7: the k-th successful create_waiver call returned W-00k, and the ids of
\* the log are strictly increasing in file order
C7_IdsSequential ==
  /\ \A k \in DOMAIN created : created[k].waiver_id = <<WPFX, "0", "0", Digits[k + 1]>>
  /\ LET ws == parse_waivers_file(fileExists, log)
     IN  \A i, j \in DOMAIN ws :
           i < j => IdNum(ws[i].waiver_id) < IdNum(ws[j].waiver_id)

SuffixOf(id) == (CHOOSE p \in IdTable : p[1] = id)[2]

\* C8: generate_waiver_id returns W-001 for no waivers and otherwise W-
\* followed by m+1, zero-padded to at least 3 digits, m the maximum suffix
C8_NextId ==
  last.op = "generate_waiver_id" =>
    LET ex == last.arg
        ret == last.ret
        m == MaxOf({SuffixOf(ex[i].waiver_id) : i \in DOMAIN ex})
    IN  IF ex = <<>> THEN ret = <<WPFX, "0", "0", "1">>
        ELSE /\ Len(ret) >= 4
             /\ ret[1] = WPFX
             /\ \A i \in 2..Len(ret) : ret[i] \in DigitSet
             /\ int(Tail(ret)) = m + 1
             /\ Len(ret) > 4 => ret[2] # "0"
             /\ m = 999 => ret = <<WPFX, "1", "0", "0", "0">>
             /\ m = 9 => ret = <<WPFX, "0", "1", "0">>

C8_Witness ==
  /\ last.op = "generate_waiver_id"
  /\ Len(last.arg) = 2
  /\ last.arg[1].waiver_id = <<WPFX, "9", "9", "9">>
  /\ last.arg[2].waiver_id = <<WPFX, "0", "0", "2">>
  /\ last.ret = <<WPFX, "1", "0", "0", "0">>

\* C9: the waiver log is append-only: a step keeps the previous content as a
\* prefix, writes the header only when the file did not exist, writes only in
\* a successful create_waiver, and the waivers listed before the step are
\* listed unchanged after it
C9_AppendOnly ==
  [][/\ fileExists => (fileExists' /\ IsPrefix(log, log'))
     /\ (~fileExists /\ fileExists') => IsPrefix(FileHeader, log')
     /\ (fileExists /\ log' # log) =>
          ~IsPrefix(FileHeader, SubSeq(log', Len(log) + 1, Len(log')))
     /\ ~(last'.op = "create_waiver" /\ last'.ok) =>
          (log' = log /\ fileExists' = fileExists)
     /\ IsPrefix(list_waivers(fileExists, log), list_waivers(fileExists', log'))]_vars

C9_Witness ==
  /\ last.op = "create_waiver"
  /\ last.ok
  /\ Len(created) >= 2
  /\ Len(list_waivers(fileExists, log)) >= 2

RejectedReasons == {R_empty, R_blank, R_501, R_pad500}

\* C10: create_waiver with an empty, blank or over-long reason raises a
\* validation error and leaves the log and its directory as they were, so the
\* next id is unchanged; a reason of exactly 500 characters is accepted
C10_RejectedWritesNothing ==
  [][/\ (last'.op = "create_waiver" /\ last'.arg[1] \in RejectedReasons) =>
          /\ ~last'.ok
          /\ last'.ret.exc = "ValueError"
          /\ log' = log
          /\ fileExists' = fileExists
          /\ dirExists' = dirExists
          /\ created' = created
     /\ (last'.op = "create_waiver" /\ last'.arg[1] = R_500) =>
          /\ last'.ok
          /\ last'.ret.reason = R_500
          /\ fileExists'
          /\ Len(created') = Len(created) + 1]_vars

C10_Witness ==
  /\ last.op = "create_waiver"
  /\ ~last.ok
  /\ last.arg[1] = R_501
  /\ Len(created) = 1
  /\ created[1].reason = R_500

\* C11: create_waiver accepts a reason exactly when its trimmed length is
\* between 1 and 500 characters, whatever the length of the raw string, and
\* the waiver it returns carries the trimmed reason
C11_LimitAfterTrim ==
  last.op = "create_waiver" =>
    LET trimmed == strip(last.arg[1])
    IN  /\ last.ok <=> (1 <= len(trimmed) /\ len(trimmed) <= 500)
        /\ last.ok => last.ret.reason = trimmed

\* C12: list_waivers returns one waiver per successful create_waiver call, in
\* the order of the calls
C12_ListInCallOrder ==
  LET ws == list_waivers(fileExists, log)
  IN  /\ Len(ws) = Len(created)
      /\ \A i \in DOMAIN ws :
           /\ ws[i].waiver_id = created[i].waiver_id
           /\ ws[i].timestamp = created[i].timestamp

\* C13: get_guides returns the list of the last save_guides, unchanged, when
\* the cache file exists, the markdown files of the tracked directories and
\* their mtimes are those of the time of the save and the cache is at most
\* CACHE_EXPIRY_SECONDS old; it returns None in every other case
C13_CacheValidity ==
  last.op = "get_guides" =>
    IF cacheFile = None \/ saved = None THEN last.ret = None
    ELSE LET age == (clock - saved[1].time) * ClockStep
         IN  IF saved[1].files = mdFiles /\ age <= CACHE_EXPIRY_SECONDS
             THEN last.ret = Some(saved[1].guides)
             ELSE last.ret = None

\* the rule entries written in the frontmatter of a guide file
RulesWritten(g) ==
  IF g.content.text = "yaml" /\ g.content.fm.ty = "dict" /\ "rules" \in DOMAIN g.content.fm.v
  THEN g.content.fm.v.rules.v
  ELSE <<>>

RECURSIVE ExpectedIds(_)
\* rule id and guide id of the results expected of a run: guide by guide, for
\* a guide that exists and parses one pair per rule entry in document order,
\* for any other guide the pair of its single error result
ExpectedIds(names) ==
  IF names = <<>> THEN <<>>
  ELSE LET g == GuideFiles[Head(names)]
           rules == RulesWritten(g)
       IN  (IF Head(names) \in MissingGuides
            THEN <<<<PyStr(<<"discovery-error">>), g.stem>>>>
            ELSE IF Head(names) \in ParseFailGuides
            THEN <<<<PyStr(<<"parse-error">>), g.stem>>>>
            ELSE [j \in 1..Len(rules) |-> <<rules[j].v.id, g.stem>>])
           \o ExpectedIds(Tail(names))

\* C14: the results of a compliance run are in guide order and, within a
\* guide, in rule order: for a guide that exists and parses there is exactly
\* one result per rule entry, carrying the id of the rule and of the guide
C14_ResultsInOrder ==
  IsRun =>
    [k \in 1..Len(last.ret) |-> <<last.ret[k].rule_id, last.ret[k].guide_id>>]
      = ExpectedIds(guides)

C14_Witness ==
  /\ IsRun
  /\ guides = <<"gPlain", "gA">>
  /\ Len(last.ret) = 2
  /\ last.ret[1].rule_id = PyStr(<<"r1">>)
  /\ last.ret[2].rule_id = PyStr(<<"r2">>)
  /\ last.ret[2].guide_id = "gA"

\* the overall status shown in a summary section
OverallShown(summary) == summary[IndexOf(summary, "**Overall Status**: ", 1) + 1]

\* the count shown in the row of a summary section with the given label
CountShown(summary, label) ==
  LET p == IndexOf(summary, label, 1) + 2
  IN  int(SubSeq(summary, p, DigitRunEnd(summary, p)))

\* C15: the overall status of the summary is COMPLIANT exactly when the result
\* list is non-empty and holds no FAIL and no ERROR result, NO RULES exactly
\* when it is empty, PARTIAL otherwise, and the four counts shown add up to
\* the total shown, which is the number of results
C15_OverallStatus ==
  last.op = "generate_summary_section" =>
    LET results == last.arg
        summary == last.ret
        bad == \E i \in DOMAIN results : results[i].status \in {"fail", "error"}
        shown == OverallShown(summary)
    IN  /\ shown \in {"COMPLIANT", "NO RULES", "PARTIAL"}
        /\ shown = "COMPLIANT" <=> (results # <<>> /\ ~bad)
        /\ shown = "NO RULES" <=> results = <<>>
        /\ CountShown(summary, "Total Rules") = Len(results)
        /\ CountShown(summary, "Passed") + CountShown(summary, "Failed")
             + CountShown(summary, "Waived") + CountShown(summary, "Errors")
             = CountShown(summary, "Total Rules")

C15_Witness ==
  /\ last.op = "generate_summary_section"
  /\ Len(last.arg) = 2
  /\ last.arg[1].status = "waived"
  /\ last.arg[2].status = "pass"
  /\ OverallShown(last.ret) = "COMPLIANT"

\* C16: the check-compliance command exits with status 0, having written the
\* report, exactly when at least one guide was found and the run produced no
\* FAIL and no ERROR result
C16_ExitStatus ==
  last.op = "check_compliance" =>
    LET results == run_compliance_check(GuidesOf(guides), fileExists, log, tree, Ts(now))
        bad == \E i \in DOMAIN results : results[i].status \in {"fail", "error"}
    IN  (last.ret.exit_code = 0 /\ reportFile # None) <=> (guides # <<>> /\ ~bad)

NonBlankStr(x) == x.ty = "str" /\ strip(x.v) # <<>>

KnownType(x) == x.ty = "str" /\ x.v \in {<<"file_exists">>, <<"dependency_present">>, <<"text_includes">>}

\* the fields a rule of the given type must carry besides id, type, description
TypeFields(type) ==
  CASE type.v = <<"file_exists">> -> {"path"}
    [] type.v = <<"dependency_present">> -> {"file", "package"}
    [] type.v = <<"text_includes">> -> {"file", "text"}

\* the rule entries the schema rules out: no mapping, no id, type or
\* description, a type that is not one of the three kinds, or a field of its
\* type that is missing, not a string or the empty string
MustReject(rule) ==
  \/ rule.ty # "dict"
  \/ {"id", "type", "description"} \ DOMAIN rule.v # {}
  \/ ~KnownType(rule.v.type)
  \/ \E f \in TypeFields(rule.v.type) :
       f \notin DOMAIN rule.v \/ rule.v[f].ty # "str" \/ rule.v[f].v = <<>>

\* the rule entries the schema admits: a known type, id, type and
\* description present and every field of its type a non-blank string
MustAccept(rule) ==
  /\ rule.ty = "dict"
  /\ {"id", "type", "description"} \subseteq DOMAIN rule.v
  /\ KnownType(rule.v.type)
  /\ \A f \in TypeFields(rule.v.type) : f \in DOMAIN rule.v /\ NonBlankStr(rule.v[f])

\* the frontmatter of the guide is a mapping with a rules list
HasRulesList(g) ==
  /\ g.exists
  /\ g.content.text = "yaml"
  /\ g.content.fm.ty = "dict"
  /\ "rules" \in DOMAIN g.content.fm.v
  /\ g.content.fm.v.rules.ty = "list"

\* C17: extract_rules returns the rule entries of the frontmatter, unchanged
\* and in document order, when all of them are valid, and the empty list for
\* a guide without a frontmatter block or without a rules key
C17_ExtractAllRules ==
  last.op = "extract_rules" =>
    LET g == last.arg
    IN  /\ (HasRulesList(g) /\ \A i \in DOMAIN RulesWritten(g) : MustAccept(RulesWritten(g)[i])) =>
             (last.ok /\ last.ret.val = RulesWritten(g))
        /\ (g.exists /\ g.content.text = "plain") => (last.ok /\ last.ret.val = <<>>)
        /\ (g.exists /\ g.content.text = "yaml" /\ g.content.fm.ty = "dict"
              /\ "rules" \notin DOMAIN g.content.fm.v) => (last.ok /\ last.ret.val = <<>>)

C17_Witness ==
  /\ last.op = "extract_rules"
  /\ last.ok
  /\ Len(last.ret.val) = 2
  /\ last.ret.val[1].v.id.v = <<"r5">>
  /\ last.ret.val[2].v.id.v = <<"r1">>

\* the 0-based indices of the entries that are no mapping or fail validation
Offending(rules) ==
  {i \in 0..(Len(rules) - 1) :
     \/ rules[i + 1].ty # "dict"
     \/ ~validate_rule_structure(rules[i + 1], get(rules[i + 1].v, "type", PyNone)).ok}

\* C18: when an entry of the rules list is no mapping or fails validation,
\* extract_rules fails as a whole, and its error names the first such entry by
\* its id, or by its index when the entry has no id
C18_RuleScopedFailure ==
  (last.op = "extract_rules" /\ HasRulesList(last.arg) /\ Offending(RulesWritten(last.arg)) # {}) =>
    LET rules == RulesWritten(last.arg)
        first == CHOOSE i \in Offending(rules) : \A j \in Offending(rules) : i <= j
        entry == rules[first + 1]
    IN  /\ ~last.ok
        /\ IF entry.ty = "dict" /\ "id" \in DOMAIN entry.v
           THEN Contains(last.ret.msg, pystr(entry.v.id))
           ELSE Contains(last.ret.msg, str_int(first))

\* C19: validate_rule_structure rejects every rule entry the schema rules out
\* and accepts every rule entry the schema admits
C19_SchemaValidation ==
  last.op = "validate_rule_structure" =>
    /\ MustReject(last.arg) => ~last.ok
    /\ MustAccept(last.arg) => last.ok

C19_Witness ==
  /\ last.op = "validate_rule_structure"
  /\ ~last.ok
  /\ last.arg.ty = "dict"
  /\ DOMAIN last.arg.v = DOMAIN RuleDep.v
  /\ \A f \in DOMAIN last.arg.v : last.arg.v[f].ty = "str"
  /\ last.arg.v.type.v = <<"dependency_present">>
  /\ last.arg.v.file.v = <<"f">>
  /\ last.arg.v.package.v = <<>>

\* C20: a rule entry with a version or division that is not a string, or a
\* case_sensitive that is not a boolean, fails validation; a rule entry the
\* schema admits that has none of the three is accepted
C20_OptionalFieldTypes ==
  (last.op = "validate_rule_structure" /\ MustAccept(last.arg)) =>
    LET d == last.arg.v
        optional == Range(RULE_TYPE_SCHEMAS[d.type.v[1]].optional)
        wrong == {f \in optional \cap DOMAIN d :
                    d[f].ty # (IF f = "case_sensitive" THEN "bool" ELSE "str")}
    IN  /\ wrong # {} => ~last.ok
        /\ optional \cap DOMAIN d = {} => last.ok

\* the sequence without its i-th element
RemoveAt(q, i) == SubSeq(q, 1, i - 1) \o SubSeq(q, i + 1, Len(q))

\* C21: evaluate_all returns normally with one entry per registered rule in
\* registration order; a rule whose evaluate raises yields an entry with
\* passed false and error set that carries the text of the exception, and
\* the other entries are those evaluate_all returns when that rule is not
\* registered
C21_EvaluateAllIsolated ==
  last.op = "evaluate_all" =>
    /\ last.ok
    /\ Len(last.ret.val) = Len(last.arg)
    /\ \A i \in DOMAIN last.arg :
         LET rule == last.arg[i]
             entry == last.ret.val[i]
             evaluation == evaluate(rule, fsys)
         IN  /\ entry.rule_id = rule.id
             /\ entry.rule_type = rule.TYPE
             /\ evaluation.ok =>
                  /\ ~entry.error
                  /\ entry.passed = evaluation.val.passed
                  /\ entry.message = evaluation.val.message
             /\ ~evaluation.ok =>
                  /\ ~entry.passed
                  /\ entry.error
                  /\ Contains(entry.details, evaluation.msg)
                  /\ evaluate_all(RemoveAt(last.arg, i), fsys) = Ok(RemoveAt(last.ret.val, i))

\* a rule whose evaluate raises was registered in front of a rule that
\* passes, and evaluate_all returned both entries
C21_Witness ==
  /\ last.op = "evaluate_all"
  /\ last.ok
  /\ Len(last.arg) = 2
  /\ ~evaluate(last.arg[1], fsys).ok
  /\ last.ret.val[1].error
  /\ last.ret.val[2].passed

\* the rule's fields are of the types the rule schema names, so that only
\* the target file decides how evaluate ends
WellTypedRule(rule) ==
  CASE rule.TYPE = "file_exists" -> rule.path.ty = "str"
    [] rule.TYPE = "dependency_present" ->
         /\ rule.file.ty = "str"
         /\ rule.package.ty = "str"
         /\ rule.version.ty \in {"NoneType", "str"}
    [] rule.TYPE = "text_includes" ->
         /\ rule.file.ty = "str"
         /\ rule.text.ty = "str"
         /\ rule.case_sensitive.ty = "bool"
    [] OTHER -> FALSE

\* C22: evaluate of a dependency_present or text_includes rule does not
\* raise whatever the target file is, and returns passed false with a message
\* naming the configured file when the target is missing, a directory or not
\* readable; evaluate of a file_exists rule passes exactly when the path
\* exists, as a file or as a directory
C22_TargetFileNeverRaises ==
  (last.op = "evaluate" /\ WellTypedRule(last.arg)) =>
    LET rule == last.arg
    IN  IF rule.TYPE = "file_exists"
        THEN /\ last.ok
             /\ last.ret.val.passed <=> fsys[rule.path.v].kind # "missing"
        ELSE /\ last.ok
             /\ fsys[rule.file.v].kind # "file" =>
                  /\ ~last.ret.val.passed
                  /\ Contains(last.ret.val.message, rule.file.v)

\* C23: evaluate of a dependency_present rule returns the same passed value
\* with any version constraint as with none: passed is true exactly when the
\* manifest is a readable file whose text contains the package name
C23_VersionNeverChangesOutcome ==
  (last.op = "evaluate" /\ last.arg.TYPE = "dependency_present") =>
    LET rule == last.arg
        unconstrained == evaluate([rule EXCEPT !.version = PyNone], fsys)
        manifest == fsys[rule.file.v]
    IN  unconstrained.ok =>
          /\ last.ok
          /\ last.ret.val.passed = unconstrained.val.passed
          /\ last.ret.val.passed <=>
               (manifest.kind = "file" /\ Contains(manifest.content, rule.package.v))

(***************************************************************************)
(* The MetricsCollector on its own: start_check and end_check called in    *)
(* any order while time passes (time.time() is clock).                     *)
(***************************************************************************)
InitMetrics ==
  /\ InitNoStore
  /\ InitNoCache
  /\ InitNoRace
  /\ engineRules = <<>>
  /\ fsys = <<>>
  /\ current_check = None
  /\ history = <<>>
  /\ endCalls = 0
  /\ last = Call("init", <<>>, TRUE, <<>>)

\* MetricsCollector.start_check (metrics.py:100-104)
StartCheck ==
  /\ current_check' = start_check(clock)
  /\ last' = Call("start_check", current_check, TRUE, current_check')
  /\ UNCHANGED <<history, endCalls, engineVars, raceVars>>
  /\ UNCHANGED <<storeVars, cacheVars, reportFile>>

\* MetricsCollector.end_check (metrics.py:106-116); endCalls counts the calls
\* that found an active check
EndCheck ==
  LET r == end_check(current_check, history, clock)
  IN  /\ current_check # None => Len(history) < MaxChecks
      /\ current_check' = r.current_check
      /\ history' = r.history
      /\ endCalls' = IF current_check = None THEN endCalls ELSE endCalls + 1
      /\ last' = Call("end_check", [current_check |-> current_check, history |-> history],
                      TRUE, r.ret)
      /\ UNCHANGED <<engineVars, raceVars>>
      /\ UNCHANGED <<storeVars, cacheVars, reportFile>>

NextMetrics ==
  \/ StartCheck
  \/ EndCheck
  \/ AdvanceClock

SpecMetrics == InitMetrics /\ [][NextMetrics]_vars

\* C26: end_check with an active check returns that check with end_time
\* set, appends it to history exactly once and leaves current_check None;
\* end_check with no active check returns None and leaves history unchanged;
\* the length of history is the number of end_check calls that found an
\* active check, and every entry of history has end_time set
C26_MetricsCollector ==
  /\ Len(history) = endCalls
  /\ \A i \in DOMAIN history : history[i].end_time # None
  /\ last.op = "end_check" =>
       /\ current_check = None
       /\ IF last.arg.current_check = None
          THEN /\ last.ret = None
               /\ history = last.arg.history
          ELSE /\ last.ret # None
               /\ last.ret[1].end_time # None
               /\ last.ret[1].start_time = last.arg.current_check[1].start_time
               /\ history = Append(last.arg.history, last.ret[1])

\* two checks were ended, one of them after time had passed, and a further
\* end_check found no active check
C26_Witness ==
  /\ last.op = "end_check"
  /\ last.arg.current_check = None
  /\ Len(history) = 2
  /\ history[2].end_time[1] > history[2].start_time

\* the position in the log of the last waiver that lists the rule id
LastCovering(ws, k) ==
  CHOOSE i \in DOMAIN ws :
    /\ k \in Range(ws[i].related_rules)
    /\ \A j \in DOMAIN ws : j > i => k \notin Range(ws[j].related_rules)

\* the map binds exactly the rule ids some waiver lists, each to the last
\* waiver of the log listing it
BindsLastWaiver(ws, m) ==
  /\ DOMAIN m = UNION {Range(ws[i].related_rules) : i \in DOMAIN ws}
  /\ \A k \in DOMAIN m :
       /\ m[k] = ws[LastCovering(ws, k)]
       /\ m[k].related_rules # <<>>

\* the results of a check that are WAIVED carry the id the map binds
WaivedCarryMapId(results, m) ==
  \A i \in DOMAIN results :
    results[i].status = "waived" =>
      /\ InWaiverMap(results[i].rule_id, m)
      /\ results[i].waiver_id = Some(m[results[i].rule_id.v].waiver_id)

\* C24: the waiver map of a compliance check binds every rule id listed by
\* several waivers of the log to the one appearing last in the log, a WAIVED
\* result carries the id of that waiver, and a waiver with an empty
\* related_rules list covers no rule
C24_LastWaiverWins ==
  IsRun =>
    /\ BindsLastWaiver(list_waivers(fileExists, log),
                       _build_waiver_map(list_waivers(fileExists, log)))
    /\ WaivedCarryMapId(last.ret, _build_waiver_map(list_waivers(fileExists, log)))

\* the two latest waivers of the log consulted by the check list the same rule id
SharedRuleAtEnd(ws) ==
  /\ Len(ws) = 3
  /\ ws[1].related_rules = <<>>
  /\ Range(ws[2].related_rules) \cap Range(ws[3].related_rules) # {}
  /\ ws[2].waiver_id # ws[3].waiver_id

\* a check of a guide with rules ran on a log of a waiver that lists no rule
\* followed by two waivers with different ids that list the same rule id
C24_Witness ==
  /\ IsRun
  /\ last.ret # <<>>
  /\ SharedRuleAtEnd(list_waivers(fileExists, log))

\* the ids of the results that report a guide, not a rule
GuideErrorIds == {<<"discovery-error">>, <<"parse-error">>}

\* some waiver of the log has the id and lists the rule id
WaiverListsRule(ws, waiver_id, rule_id) ==
  \E i \in DOMAIN ws :
    /\ ws[i].waiver_id = waiver_id
    /\ rule_id.ty = "str"
    /\ rule_id.v \in Range(ws[i].related_rules)

ResultWaiverIds(results, ws) ==
  \A i \in DOMAIN results :
    /\ results[i].waiver_id # None <=> results[i].status = "waived"
    /\ results[i].waiver_id # None =>
         WaiverListsRule(ws, results[i].waiver_id[1], results[i].rule_id)
    /\ (results[i].rule_id.ty = "str" /\ results[i].rule_id.v \in GuideErrorIds) =>
         results[i].status = "error"

\* C29: in the results of run_compliance_check a result has a waiver_id
\* exactly when its status is WAIVED, the waiver_id is the id of a waiver of
\* the log that lists the result's rule_id, and the results with rule_id
\* discovery-error or parse-error have status ERROR
C29_WaiverIdIffWaived ==
  IsRun => ResultWaiverIds(last.ret, list_waivers(fileExists, log))

\* a result reports a guide and another reports a rule that a waiver of the log lists
GuideErrorBesideCoveredRule(results, ws) ==
  /\ \E i \in DOMAIN results : results[i].rule_id.v \in GuideErrorIds
  /\ \E i \in DOMAIN results, j \in DOMAIN ws :
       /\ results[i].rule_id.ty = "str"
       /\ results[i].rule_id.v \in Range(ws[j].related_rules)

\* a check returned the report of a guide error next to the result of a rule
\* that a waiver of the log covers
C29_Witness ==
  /\ IsRun
  /\ GuideErrorBesideCoveredRule(last.ret, list_waivers(fileExists, log))

\* C30: a rule definition that validate_rule_structure accepts is constructed
\* without an exception, by create_rule called with its type and its fields
\* and by create_rule as _evaluate_rule calls it
C30_ParserAndConstructorsAgree ==
  (last.op = "validate_rule_structure" /\ last.ok) =>
    /\ create_rule(get(last.arg.v, "type", PyNone), last.arg.v).ok
    /\ create_rule(last.arg, EmptyDict).ok

(***************************************************************************)
(* The waiver log edited by hand: sections are written into                *)
(* .specify/waivers.md with or without their Reason and Timestamp lines,   *)
(* and an editor may save the file without its final newline.  created     *)
(* holds the waivers of the sections written with both lines.              *)
(***************************************************************************)
MaxSections == 2

HandIds == {<<WPFX, "0", "0", "1">>, <<WPFX, "0", "0", "2">>}

\* the text of a section written by hand
HandSection(waiver_id, with_reason, with_timestamp) ==
  <<HDR>> \o waiver_id \o <<NL>>
  \o (IF with_reason THEN <<F_REASON, "a", NL>> ELSE <<>>)
  \o (IF with_timestamp THEN <<F_TS>> \o Ts(0) \o <<NL>> ELSE <<>>)

InitLog ==
  /\ dirExists = TRUE
  /\ fileExists \in BOOLEAN
  /\ log = <<>>
  /\ tree = {}
  /\ now = 0
  /\ created = <<>>
  /\ guides = <<>>
  /\ InitCacheEmpty
  /\ last = Call("init", <<>>, TRUE, <<>>)

WriteSection(waiver_id, with_reason, with_timestamp) ==
  /\ Cardinality({i \in DOMAIN log : log[i] = HDR}) < MaxSections
  /\ IF log = <<>> THEN TRUE ELSE log[Len(log)] = NL
  /\ fileExists' = TRUE
  /\ log' = log \o HandSection(waiver_id, with_reason, with_timestamp)
  /\ created' = IF with_reason /\ with_timestamp
                THEN Append(created, Waiver(waiver_id, <<"a">>, Ts(0), None, None))
                ELSE created
  /\ last' = Call("write_section", waiver_id, TRUE, <<>>)
  /\ UNCHANGED <<dirExists, tree, now, guides>>
  /\ UNCHANGED otherVars

\* the file is saved without the newline that ended its last line
StripFinalNewline ==
  /\ log # <<>>
  /\ log[Len(log)] = NL
  /\ log' = SubSeq(log, 1, Len(log) - 1)
  /\ last' = Call("strip_final_newline", <<>>, TRUE, <<>>)
  /\ UNCHANGED <<dirExists, fileExists, tree, now, created, guides>>
  /\ UNCHANGED otherVars

WriteAnySection ==
  \E waiver_id \in HandIds, with_reason \in BOOLEAN, with_timestamp \in BOOLEAN :
    WriteSection(waiver_id, with_reason, with_timestamp)

NextLog ==
  \/ WriteAnySection
  \/ StripFinalNewline
  \/ ListWaivers

SpecLog == InitLog /\ [][NextLog]_vars

\* C25: parse_waivers_file returns the empty list when the log does not
\* exist, and of a log edited by hand it returns the sections that have a
\* Reason line and a Timestamp line, in file order, skipping the others
C25_DefensiveParsing ==
  last.op = "list_waivers" =>
    /\ ~fileExists => last.ret = <<>>
    /\ last.ret = created

(***************************************************************************)
(* Two processes run create_waiver on the same project.  An invocation     *)
(* takes four steps: it reads the log and computes its waiver              *)
(* (waiver.py:171-187), tests whether the log exists (waiver.py:203-207),  *)
(* writes the header if it did not (waiver.py:208-213), and appends its    *)
(* entry (waiver.py:215-225).  Nothing orders the steps of two processes.  *)
(***************************************************************************)
CreatedBy(p) == IF p = 1 THEN Some(<<"p1">>) ELSE Some(<<"p2">>)

InitRace ==
  /\ InitNoStore
  /\ InitNoCache
  /\ InitNoMetrics
  /\ InitNoRace
  /\ engineRules = <<>>
  /\ fsys = <<>>
  /\ last = Call("init", <<>>, TRUE, <<>>)

\* create_waiver up to the construction of the waiver (waiver.py:163-187)
BeginCreate(p) ==
  /\ pc[p] = "idle"
  /\ Len(created) + Cardinality({q \in Procs : pc[q] # "idle"}) < MaxWaivers
  /\ pending' = [pending EXCEPT ![p] =
                   Some(Waiver(generate_waiver_id(parse_waivers_file(fileExists, log)),
                               strip(R_a), Ts(now), None, CreatedBy(p)))]
  /\ pc' = [pc EXCEPT ![p] = "exists"]
  /\ overlapped' = (overlapped \/ \E q \in Procs : pc[q] # "idle")
  /\ last' = Call("begin_create_waiver", p, TRUE, <<>>)
  /\ UNCHANGED <<storeVars, cacheVars, reportFile, engineVars, metricsVars>>

\* append_to_waivers_file: mkdir and the test of waivers_file.exists()
\* (waiver.py:203-207)
TestExists(p) ==
  /\ pc[p] = "exists"
  /\ dirExists' = TRUE
  /\ pc' = [pc EXCEPT ![p] = IF fileExists THEN "append" ELSE "header"]
  /\ last' = Call("test_exists", p, TRUE, <<>>)
  /\ UNCHANGED <<fileExists, log, tree, now, created, guides, pending, overlapped>>
  /\ UNCHANGED <<cacheVars, reportFile, engineVars, metricsVars>>

\* waivers_file.write_text(header) (waiver.py:208-213): the file is created
\* or truncated
WriteHeader(p) ==
  /\ pc[p] = "header"
  /\ fileExists' = TRUE
  /\ log' = FileHeader
  /\ pc' = [pc EXCEPT ![p] = "append"]
  /\ last' = Call("write_header", p, TRUE, <<>>)
  /\ UNCHANGED <<dirExists, tree, now, created, guides, pending, overlapped>>
  /\ UNCHANGED <<cacheVars, reportFile, engineVars, metricsVars>>

\* open(waivers_file, 'a') and write(entry), then create_waiver returns the
\* waiver (waiver.py:215-225, 192-193)
AppendEntry(p) ==
  /\ pc[p] = "append"
  /\ fileExists' = TRUE
  /\ log' = (IF fileExists THEN log ELSE <<>>)
            \o format_waiver_entry(pending[p][1].waiver_id, pending[p][1].reason,
                                   pending[p][1].timestamp, pending[p][1].related_rules,
                                   pending[p][1].created_by)
  /\ created' = Append(created, pending[p][1])
  /\ pc' = [pc EXCEPT ![p] = "idle"]
  /\ pending' = [pending EXCEPT ![p] = None]
  /\ last' = Call("create_waiver", p, TRUE, pending[p][1])
  /\ UNCHANGED <<dirExists, tree, now, guides, overlapped>>
  /\ UNCHANGED <<cacheVars, reportFile, engineVars, metricsVars>>

Begin == \E p \in Procs : BeginCreate(p)
Test == \E p \in Procs : TestExists(p)
Header == \E p \in Procs : WriteHeader(p)
AppendStep == \E p \in Procs : AppendEntry(p)

NextRace ==
  \/ Begin
  \/ Test
  \/ Header
  \/ AppendStep

SpecRace == InitRace /\ [][NextRace]_vars

\* the ids are pairwise different
UniqueIds(ws) ==
  \A i, j \in DOMAIN ws : i # j => ws[i].waiver_id # ws[j].waiver_id

AllIdle == \A p \in Procs : pc[p] = "idle"

\* C27: create_waiver reads the log and appends to it without a lock: as long
\* as no invocation began while another was in progress the waivers
\* returned have pairwise different ids and the log holds exactly their
\* sections in order; only interleaved invocations give one id twice or lose
\* an entry
C27_UniqueIdsSingleWriter ==
  ~overlapped =>
    /\ UniqueIds(created)
    /\ AllIdle => parse_waivers_file(fileExists, log) = created

\* the log read back has the same id twice
LogRepeatsId(ws) ==
  \E i, j \in DOMAIN ws : i # j /\ ws[i].waiver_id = ws[j].waiver_id

\* two interleaved invocations have returned waivers with the same id and
\* the log holds two sections with that id
C27_Witness ==
  /\ overlapped
  /\ AllIdle
  /\ Len(created) = 2
  /\ created[1].waiver_id = created[2].waiver_id
  /\ created[1].created_by # created[2].created_by
  /\ LogRepeatsId(parse_waivers_file(fileExists, log))

(***************************************************************************)
(* ComplianceChecker._discover_guides (compliance.py:182-224) with         *)
(* use_cache=True on a project whose markdown files change while time      *)
(* passes.                                                                 *)
(***************************************************************************)
RECURSIVE Existing(_, _)
\* the paths of the order that exist
Existing(order, files) ==
  IF order = <<>> THEN <<>>
  ELSE (IF files[Head(order)] # None THEN <<Head(order)>> ELSE <<>>)
       \o Existing(Tail(order), files)

\* the discovery without the cache (compliance.py:202-216):
\* context/references/*.md, then specs/**/*.md
discover(files) == Existing(<<P_R>>, files) \o Existing(<<P_A, P_X, P_B>>, files)

\* _discover_guides with use_cache=True: the list returned and the cache file
\* left behind
_discover_guides(cache, files, time) ==
  LET cached_guides == get_guides(cache, files, time)
  IN  IF cached_guides # None
      THEN [ret |-> cached_guides[1], cached |-> TRUE, cacheFile |-> cache]
      ELSE [ret |-> discover(files), cached |-> FALSE,
            cacheFile |-> IF discover(files) # <<>>
                          THEN Some(save_guides(discover(files), files, time))
                          ELSE cache]

DiscoverGuides ==
  LET r == _discover_guides(cacheFile, mdFiles, clock)
  IN  /\ cacheFile' = r.cacheFile
      /\ saved' = IF r.cached \/ r.ret = <<>> THEN saved
                  ELSE Some([guides |-> r.ret, files |-> mdFiles, time |-> clock])
      /\ last' = Call("_discover_guides", r.cached, TRUE, r.ret)
      /\ UNCHANGED <<mdFiles, clock, fileOps>>
      /\ UNCHANGED <<storeVars, reportFile, extraVars>>

NextDiscover ==
  \/ DiscoverGuides
  \/ WriteMd
  \/ RemoveMd
  \/ AdvanceClock

SpecDiscover == InitCache /\ [][NextDiscover]_vars

\* C28: _discover_guides with the cache returns the set of guide paths a
\* discovery without the cache returns at that moment, and the cache file
\* never holds an empty guide list
C28_CacheTransparent ==
  /\ last.op = "_discover_guides" => Range(last.ret) = Range(discover(mdFiles))
  /\ cacheFile # None => saved # None /\ saved[1].guides # <<>>

====
